---- MODULE Spec2Model ----
(***************************************************************************)
(* The conversion pipeline of the subscription converter                   *)
(* (src-tauri/src/engine.rs, filter.rs, parser.rs, http_client.rs,         *)
(* clash_config.rs, ini_parser.rs) as a state machine: one convert call,   *)
(* from the split of the subscription text over the concurrent fetches,    *)
(* the parse, dedup, filter and rename stages and the template load to the *)
(* emitted document.                                                       *)
(*                                                                         *)
(* Text is modelled structurally.  A name or a regex pattern is a sequence *)
(* of one-character strings.  A line of subscription text is a record that *)
(* says what the parser can see of it: the scheme in front of "://", what  *)
(* the protocol parser makes of the rest, and the length of the line.  A   *)
(* text (a response body, the resolved blob) is a sequence of lines.       *)
(***************************************************************************)
EXTENDS Integers, Sequences, FiniteSets, TLC

(***************************************************************************)
(* Bounds of the model.                                                    *)
(***************************************************************************)
\* number of lines of request.subscription
MaxItems == 2

(***************************************************************************)
(* Option<T>: None is the empty sequence, Some(x) the one-element one.     *)
(***************************************************************************)
None == <<>>
Some(x) == <<x>>
IsSome(o) == Len(o) = 1
\* Option<String> inside a node record (the other fields are plain strings)
NoneStr == "<none>"

\* a request field the pipeline has not read yet: the caller fixes every
\* field before convert starts, the model draws it where it is first read
Unread == <<"unread", "unread">>

RECURSIVE SeqsUpTo(_, _)
\* all sequences over S of length 0..n
SeqsUpTo(S, n) ==
    IF n = 0 THEN {<<>>}
    ELSE LET shorter == SeqsUpTo(S, n - 1)
         IN  shorter \cup {Append(s, x) : s \in {t \in shorter : Len(t) = n - 1}, x \in S}

RECURSIVE Flatten(_)
\* concatenation of a sequence of sequences
Flatten(ss) == IF ss = <<>> THEN <<>> ELSE Head(ss) \o Flatten(Tail(ss))

(***************************************************************************)
(* The regex crate, on the pattern language the model uses: a pattern is a *)
(* sequence of atoms.  "^" in front anchors the match at the start of the  *)
(* text, ".*" matches any run of characters, "(" opens a group (no pattern *)
(* of the model closes one, so a pattern with "(" does not compile), and   *)
(* every other atom is a character that matches itself.  Without "^" a     *)
(* match is unanchored (a substring).                                      *)
(***************************************************************************)
RegexCompiles(p) == \A i \in 1..Len(p) : p[i] # "("

\* a pattern of plain characters matches s at offset i
MatchesAt(p, s, i) ==
    /\ i + Len(p) <= Len(s)
    /\ \A j \in 1..Len(p) : s[i + j] = p[j]

RECURSIVE MatchFrom(_, _, _)
\* the atoms of p match a run of s that starts at offset i
MatchFrom(p, s, i) ==
    IF p = <<>> THEN TRUE
    ELSE IF Head(p) = ".*" THEN \E j \in i..Len(s) : MatchFrom(Tail(p), s, j)
    ELSE i < Len(s) /\ s[i + 1] = Head(p) /\ MatchFrom(Tail(p), s, i + 1)

\* Regex::is_match
IsMatch(p, s) ==
    IF p # <<>> /\ Head(p) = "^" THEN MatchFrom(Tail(p), s, 0)
    ELSE \E i \in 0..Len(s) : MatchFrom(p, s, i)

RECURSIVE ReplaceAll(_, _, _)
\* Regex::replace_all: leftmost non-overlapping matches of p in s replaced by r
\* (the rename patterns of the model are plain characters, and the
\* replacements contain no "$", so r is literal)
ReplaceAll(p, s, r) ==
    IF Len(p) = 0
    THEN IF s = <<>> THEN r ELSE r \o <<Head(s)>> \o ReplaceAll(p, Tail(s), r)
    ELSE IF s = <<>> THEN <<>>
    ELSE IF MatchesAt(p, s, 0)
         THEN r \o ReplaceAll(p, SubSeq(s, Len(p) + 1, Len(s)), r)
         ELSE <<Head(s)>> \o ReplaceAll(p, Tail(s), r)

(***************************************************************************)
(* Nodes (node.rs).  One record shape for the nine variants; a field a     *)
(* variant does not have is "".                                            *)
(***************************************************************************)
MkNode(type, name, server, port, cred) ==
    [type |-> type, name |-> name, server |-> server, port |-> port,
     uuid |-> IF type \in {"vless", "vmess", "tuic"} THEN cred ELSE "",
     password |-> IF type \in {"ss", "ssr", "trojan", "hysteria2"} THEN cred ELSE "",
     cipher |-> IF type \in {"ss", "ssr"} THEN "aes-256-gcm" ELSE "",
     protocol |-> IF type = "ssr" THEN "origin" ELSE "",
     auth_str |-> IF type = "hysteria" THEN cred ELSE NoneStr,
     token |-> NoneStr,
     public_key |-> IF type = "wireguard" THEN cred ELSE "",
     flow |-> None, tls |-> IF type = "vless" THEN Some(FALSE) ELSE None,
     servername |-> None, skip_cert_verify |-> None,
     reality_opts |-> None, client_fingerprint |-> None]

\* RealityOpts
RealityOpts(public_key, short_id) == [public_key |-> public_key, short_id |-> short_id]

\* a VlessNode with its optional fields (alpn, packet_encoding and the
\* transport options stay absent)
VlessWith(n, flow, tls, servername, skip_cert_verify, reality_opts, client_fingerprint) ==
    [n EXCEPT !.flow = flow, !.tls = tls, !.servername = servername,
              !.skip_cert_verify = skip_cert_verify,
              !.reality_opts = reality_opts,
              !.client_fingerprint = client_fingerprint]

\* Node::name
name(n) == n.name

\* Node::set_name
set_name(n, new_name) == [n EXCEPT !.name = new_name]

\* Option<String>::as_deref().unwrap_or("")
UnwrapOrEmpty(o) == IF o = NoneStr THEN "" ELSE o

\* Node::dedup_key: the format! string of the variant
dedup_key(n) ==
    LET sp == n.server \o ":" \o ToString(n.port) \o ":"
    IN  CASE n.type = "vless" -> "vless:" \o sp \o n.uuid
          [] n.type = "vmess" -> "vmess:" \o sp \o n.uuid
          [] n.type = "ss" -> "ss:" \o sp \o n.cipher \o ":" \o n.password
          [] n.type = "ssr" ->
                "ssr:" \o sp \o n.cipher \o ":" \o n.password \o ":" \o n.protocol
          [] n.type = "trojan" -> "trojan:" \o sp \o n.password
          [] n.type = "hysteria" -> "hy:" \o sp \o UnwrapOrEmpty(n.auth_str)
          [] n.type = "hysteria2" -> "hy2:" \o sp \o n.password
          [] n.type = "tuic" ->
                "tuic:" \o sp \o
                    UnwrapOrEmpty(IF n.uuid # NoneStr THEN n.uuid ELSE n.token)
          [] OTHER -> "wg:" \o sp \o n.public_key

(***************************************************************************)
(* Lines of text.  scheme is what stands in front of "://" ("" when the    *)
(* line has no "://": such a line of the model consists of characters of   *)
(* the base64 alphabets only); wellformed says whether the protocol parser *)
(* of the scheme accepts the rest of the line and node is what it returns; *)
(* len is the length of the line; enc is the text a base64 line decodes to *)
(* (None when the line is not the base64 of a text).                       *)
(***************************************************************************)
\* the query parameters of a link the parsers read: each is None when the
\* link does not have the key and Some(text) when it has, Some("") when its
\* value is empty
Query(security, flow, sni, allow_insecure, fp, pbk, sid, pk, peer_pk) ==
    [security |-> security, flow |-> flow, sni |-> sni,
     allow_insecure |-> allow_insecure, fp |-> fp, pbk |-> pbk, sid |-> sid,
     pk |-> pk, peer_pk |-> peer_pk]

NoQuery == Query(None, None, None, None, None, None, None, None, None)

\* what stands behind "://" in a link, for a line the model gives in full:
\* form is "url" (user@host:port?query#fragment), "json" (the base64 of a
\* VMess JSON with the keys add, port and id), "sip002" (base64 of
\* cipher:password, then @host:port), "legacy" (base64 of
\* cipher:password@host:port) or "ssr" (base64 of
\* host:port:protocol:cipher:obfs:password); decodes says whether the base64
\* part decodes; port is None when the link has none and may exceed 65535
LinkParts(form, user, host, port, fragment, cipher, decodes, query) ==
    [form |-> form, user |-> user, host |-> host, port |-> port,
     fragment |-> fragment, cipher |-> cipher, decodes |-> decodes,
     query |-> query]

\* a line the model gives by the outcome of its parser only
NoParts == LinkParts("none", "", "", None, None, <<>>, FALSE, NoQuery)

MkLine(id, scheme, wellformed, node, len, enc) ==
    [id |-> id, scheme |-> scheme, wellformed |-> wellformed, node |-> node,
     len |-> len, enc |-> enc, parts |-> NoParts]

RECURSIVE Join(_)
\* the string a sequence of atoms spells
Join(atoms) == IF atoms = <<>> THEN "" ELSE Head(atoms) \o Join(Tail(atoms))

\* a line scheme://... given in full
FullLink(scheme, parts) ==
    [id |-> scheme \o "://" \o parts.form \o ":" \o Join(parts.cipher) \o ":"
                \o parts.user \o "@" \o parts.host
                \o (IF IsSome(parts.port) THEN ":" \o ToString(parts.port[1]) ELSE "")
                \o (IF IsSome(parts.fragment)
                    THEN "#" \o Join(parts.fragment[1]) ELSE ""),
     scheme |-> scheme, wellformed |-> FALSE, node |-> None, len |-> 40,
     enc |-> None, parts |-> parts]

NodeA == MkNode("vless", <<"a">>, "s1", 443, "u1")
\* the endpoint and credential of NodeA under another name
NodeB == MkNode("vless", <<"b">>, "s1", 443, "u1")
NodeC == MkNode("trojan", <<"a", "b">>, "s2", 443, "pw")

LinkA == MkLine("vless://u1@s1:443#a", "vless", TRUE, Some(NodeA), 19, None)
LinkB == MkLine("vless://u1@s1:443#b", "vless", TRUE, Some(NodeB), 19, None)
LinkC == MkLine("trojan://pw@s2:443#ab", "trojan", TRUE, Some(NodeC), 21, None)
\* a line without scheme
WordLine == MkLine("notaurl", "", FALSE, None, 7, None)
\* vmess:// followed by 52 characters that are not base64
BadVmess == MkLine("vmess://<bad-b64>", "vmess", FALSE, None, 60, None)
BlankLine == MkLine("", "", FALSE, None, 0, None)
\* the base64 of LinkB \n LinkC, with its "=" padding
EncBC == MkLine("base64(b,ab)", "", FALSE, None, 56, Some(<<LinkB, LinkC>>))
Url1 == MkLine("http://sub/1", "http", FALSE, None, 12, None)
Url2 == MkLine("https://sub/2", "https", FALSE, None, 13, None)

\* str::is_empty after trim
IsEmptyLine(l) == l.len = 0
\* str::contains("://")
HasSchemeSep(l) == l.scheme # ""
\* chars().all(is_ascii_alphanumeric or one of + / = - _)
Base64Chars(l) == l.scheme = ""

\* the lines a request may hold, and the bodies a server may send
ItemLines == {Url1, Url2, LinkA, LinkC, WordLine}
Bodies == {<<LinkA, BlankLine, BadVmess>>, <<EncBC>>}
Subscriptions == SeqsUpTo(ItemLines, MaxItems)

(***************************************************************************)
(* http_client.rs                                                          *)
(***************************************************************************)
\* the value of a subscription-userinfo header: key=value pairs
HeaderValues == {<<<<"upload", "1">>, <<"total", "9">>>>, <<<<"expire", "7">>>>}

\* what the network does with one GET
Responses ==
    {[transport |-> t, status |-> 0, header |-> None, body |-> <<>>] :
        t \in {"timeout", "error"}}
    \cup {[transport |-> "ok", status |-> 404, header |-> None, body |-> <<WordLine>>]}
    \cup {[transport |-> "ok", status |-> 200, header |-> h, body |-> b] :
            h \in {None} \cup {Some(v) : v \in HeaderValues}, b \in Bodies}

\* SubscriptionInfo::parse: the last value of each known key
SubscriptionInfoParse(header_value) ==
    [key \in {"upload", "download", "total", "expire"} |->
        LET at == {i \in 1..Len(header_value) : header_value[i][1] = key}
        IN  IF at = {} THEN NoneStr
            ELSE header_value[CHOOSE i \in at : \A j \in at : j <= i][2]]

\* a Result<FetchWithInfoResult>
FetchResult(ok, err, body, info) ==
    [ok |-> ok, err |-> err, body |-> body, subscription_info |-> info]

\* the slot of a future join_all has not resolved yet
Pending == FetchResult(FALSE, "pending", <<>>, None)

\* HttpClient::fetch_with_info, given what the network did
fetch_with_info(resp) ==
    IF resp.transport = "timeout" THEN FetchResult(FALSE, "Timeout", <<>>, None)
    ELSE IF resp.transport # "ok" THEN FetchResult(FALSE, "FetchError", <<>>, None)
    ELSE IF ~(resp.status \in 200..299)
         THEN FetchResult(FALSE, "FetchError", <<>>, None)
    ELSE FetchResult(TRUE, "", resp.body,
                     IF IsSome(resp.header)
                     THEN Some(SubscriptionInfoParse(resp.header[1]))
                     ELSE None)

(***************************************************************************)
(* engine.rs: resolve_subscription and its helpers                         *)
(***************************************************************************)
RECURSIVE TrimStart(_)
\* str::trim on a text: leading blank lines go
TrimStart(text) ==
    IF text # <<>> /\ IsEmptyLine(Head(text)) THEN TrimStart(Tail(text)) ELSE text

RECURSIVE TrimEnd(_)
\* str::trim on a text: trailing blank lines go
TrimEnd(text) ==
    IF text # <<>> /\ IsEmptyLine(text[Len(text)])
    THEN TrimEnd(SubSeq(text, 1, Len(text) - 1)) ELSE text

\* clean_input: BOM and line endings do not occur in the model's texts
clean_input(text) == TrimEnd(TrimStart(text))

\* the four engines tried in turn on a one-line text; only a line that is the
\* base64 of a text decodes to valid UTF-8
Base64Decodes(line) == IsSome(line.enc)

\* decode_subscription_body
decode_subscription_body(body) ==
    LET cleaned == clean_input(body)
        is_likely_base64 ==
            /\ Len(cleaned) = 1
            /\ ~HasSchemeSep(cleaned[1])
            /\ cleaned[1].len > 20
            /\ Base64Chars(cleaned[1])
        lines_all_base64 ==
            \A i \in 1..Len(cleaned) :
                IsEmptyLine(cleaned[i])
                \/ (~HasSchemeSep(cleaned[i]) /\ Base64Chars(cleaned[i]))
    IN  IF (is_likely_base64 \/ (Len(cleaned) = 1 /\ lines_all_base64))
           /\ Base64Decodes(cleaned[1])
        THEN clean_input(cleaned[1].enc[1])
        ELSE cleaned

\* the lines of a text that are not empty after trim
NonEmptyLines(text) == SelectSeq(text, LAMBDA l : ~IsEmptyLine(l))

\* item.starts_with("http://") || item.starts_with("https://")
IsUrl(item) == item.scheme \in {"http", "https"}

\* a faulty join that stores the outputs in the order the futures completed
StoreByCompletion(slots, i, result, completed_before) ==
    [slots EXCEPT ![completed_before + 1] = result]

\* join_all: the output of the i-th future goes to slot i, whatever the number
\* of futures that completed before it
StoreResult(slots, i, result, completed_before) == [slots EXCEPT ![i] = result]

\* a faulty loop in which the last subscription info wins
KeepLastInfo(first, fetched_info) ==
    IF fetched_info = None THEN first ELSE fetched_info

\* the Ok arm of the loop over the results keeps the first subscription info
KeepFirstInfo(first, fetched_info) == IF first = None THEN fetched_info ELSE first

\* a faulty, fail-fast loop: an Err result throws away what was collected
CollectLinesFailFast(lines, result) ==
    IF result.ok
    THEN lines \o NonEmptyLines(decode_subscription_body(result.body))
    ELSE <<>>

\* one turn of the loop over the results: the lines an Ok result appends
\* (decoded, trimmed, non-empty); an Err result is skipped
CollectLines(lines, result) ==
    IF result.ok
    THEN lines \o NonEmptyLines(decode_subscription_body(result.body))
    ELSE lines

(***************************************************************************)
(* parser.rs: parse_subscription_content                                   *)
(***************************************************************************)
SupportedSchemes ==
    {"vless", "vmess", "ss", "ssr", "trojan", "hysteria2", "hy2", "hysteria",
     "hy", "tuic", "wireguard", "wg"}

\* Ok(node) and Err(error) of a protocol parser
LinkOk(node) == [ok |-> TRUE, node |-> Some(node), err |-> ""]
LinkErr(err) == [ok |-> FALSE, node |-> None, err |-> err]

\* u16::MAX, and the number of values of a u16
MaxPort == 65535
U16Size == 65536

\* Option::unwrap_or
UnwrapOr(o, default) == IF IsSome(o) THEN o[1] ELSE default

\* Url::parse on a link of a scheme that is not special: a port above
\* u16::MAX is an error, and so is an empty host in front of a port or
\* behind credentials
UrlParses(parts) ==
    /\ ~(IsSome(parts.port) /\ parts.port[1] > MaxPort)
    /\ ~(parts.host = "" /\ (parts.user # "" \/ IsSome(parts.port)))

\* Url::host_str: None for an empty host
host_str(parts) == IF parts.host = "" THEN None ELSE Some(parts.host)

\* the get_param closures: the value of a key unless it is empty
get_param(value) == IF value = Some("") THEN None ELSE value

\* a text as a name of the model
AsName(text) == IF text = "" THEN <<>> ELSE <<text>>

\* url.fragment().unwrap_or(default)
FragmentOr(parts, default) ==
    IF IsSome(parts.fragment) THEN parts.fragment[1] ELSE AsName(default)

\* the fragment, or the default when the link has none or an empty one
NonEmptyOr(parts, default) ==
    IF IsSome(parts.fragment) /\ parts.fragment[1] # <<>>
    THEN parts.fragment[1] ELSE AsName(default)

\* the fields parse_vless takes from the query parameters, given what
\* get_param returns for flow, security, sni and fp, the flag of
\* allowInsecure and the raw pbk and sid; the endpoint is the one of NodeA
parse_vless(flow, security, sni, allow_insecure, fp, pbk, sid) ==
    VlessWith(NodeA, flow, Some(security \in {"tls", "reality"}), sni,
              allow_insecure,
              IF security = "reality" /\ IsSome(pbk)
              THEN Some(RealityOpts(pbk[1], sid)) ELSE None,
              IF security = "reality" /\ fp = None THEN Some("chrome") ELSE fp)

\* parse_vless on a link given in full
parse_vless_link(parts) ==
    IF ~UrlParses(parts) THEN LinkErr("UrlParseError")
    ELSE IF parts.user = "" THEN LinkErr("MissingField")
    ELSE IF host_str(parts) = None THEN LinkErr("MissingField")
    ELSE LET q == parts.query
             server == host_str(parts)[1]
             fields ==
                parse_vless(get_param(q.flow),
                            UnwrapOr(get_param(q.security), "none"),
                            get_param(q.sni),
                            IF IsSome(q.allow_insecure)
                            THEN Some(q.allow_insecure[1] \in {"1", "true"})
                            ELSE None,
                            get_param(q.fp), q.pbk, q.sid)
         IN  LinkOk([fields EXCEPT !.name = FragmentOr(parts, server),
                                   !.server = server,
                                   !.port = UnwrapOr(parts.port, 443),
                                   !.uuid = parts.user])

\* parse_vmess: get_str gives the text of add and of id, empty or not;
\* get_u32 gives the number of port, which `as u16` truncates (the numbers
\* of the model are below 2^32)
parse_vmess(parts) ==
    IF ~parts.decodes THEN LinkErr("Base64DecodeError")
    ELSE LinkOk(MkNode("vmess", FragmentOr(parts, parts.host), parts.host,
                       UnwrapOr(parts.port, 443) % U16Size, parts.user))

\* normalize_cipher: to_lowercase, then '_' becomes '-'.  A cipher is a
\* sequence of atoms: words, "-" and "_"
normalize_cipher(cipher) ==
    LET lower ==
            [i \in 1..Len(cipher) |->
                CASE cipher[i] \in {"AES", "Aes"} -> "aes"
                  [] cipher[i] = "GCM" -> "gcm"
                  [] cipher[i] = "RC4" -> "rc4"
                  [] cipher[i] = "MD5" -> "md5"
                  [] OTHER -> cipher[i]]
    IN  [i \in 1..Len(cipher) |-> IF lower[i] = "_" THEN "-" ELSE lower[i]]

\* SS_VALID_CIPHERS
SS_VALID_CIPHERS ==
    {<<"aes", "-", "128", "-", "gcm">>, <<"aes", "-", "192", "-", "gcm">>,
     <<"aes", "-", "256", "-", "gcm">>,
     <<"chacha20", "-", "ietf", "-", "poly1305">>,
     <<"xchacha20", "-", "ietf", "-", "poly1305">>,
     <<"2022", "-", "blake3", "-", "aes", "-", "128", "-", "gcm">>,
     <<"2022", "-", "blake3", "-", "aes", "-", "256", "-", "gcm">>,
     <<"2022", "-", "blake3", "-", "chacha20", "-", "poly1305">>,
     <<"aes", "-", "128", "-", "cfb">>, <<"aes", "-", "192", "-", "cfb">>,
     <<"aes", "-", "256", "-", "cfb">>,
     <<"aes", "-", "128", "-", "ctr">>, <<"aes", "-", "192", "-", "ctr">>,
     <<"aes", "-", "256", "-", "ctr">>,
     <<"rc4", "-", "md5">>, <<"chacha20", "-", "ietf">>, <<"xchacha20">>}

\* SSR_VALID_CIPHERS
SSR_VALID_CIPHERS ==
    {<<"none">>, <<"table">>, <<"rc4">>, <<"rc4", "-", "md5">>,
     <<"aes", "-", "128", "-", "cfb">>, <<"aes", "-", "192", "-", "cfb">>,
     <<"aes", "-", "256", "-", "cfb">>,
     <<"aes", "-", "128", "-", "ctr">>, <<"aes", "-", "192", "-", "ctr">>,
     <<"aes", "-", "256", "-", "ctr">>,
     <<"bf", "-", "cfb">>,
     <<"camellia", "-", "128", "-", "cfb">>, <<"camellia", "-", "192", "-", "cfb">>,
     <<"camellia", "-", "256", "-", "cfb">>,
     <<"salsa20">>, <<"chacha20">>, <<"chacha20", "-", "ietf">>}

\* a faulty check that lets every cipher pass
AnyCipher(cipher) == TRUE

\* is_valid_ss_cipher
is_valid_ss_cipher(cipher) == normalize_cipher(cipher) \in SS_VALID_CIPHERS

\* is_valid_ssr_cipher
is_valid_ssr_cipher(cipher) == normalize_cipher(cipher) \in SSR_VALID_CIPHERS

\* parse_host_port on host:port (a host of the model is not in brackets):
\* the text behind the last ':' has to parse as u16
parse_host_port(host, port) ==
    IF port = None \/ port[1] > MaxPort
    THEN [ok |-> FALSE, host |-> "", port |-> 0]
    ELSE [ok |-> TRUE, host |-> host, port |-> port[1]]

\* a ShadowsocksNode: the cipher is kept as the link spells it
ShadowsocksNode(parts, server, port) ==
    [MkNode("ss", NonEmptyOr(parts, server), server, port, parts.user)
        EXCEPT !.cipher = Join(parts.cipher)]

\* parse_shadowsocks: format 1 when the link has an '@', format 2 otherwise;
\* the decoded text of the model's links has its ':' and, in format 2, its '@'
parse_shadowsocks(parts) ==
    IF parts.form = "sip002"
    THEN IF ~parts.decodes THEN LinkErr("Base64DecodeError")
         ELSE IF ~is_valid_ss_cipher(parts.cipher) THEN LinkErr("InvalidNodeFormat")
         ELSE IF ~parse_host_port(parts.host, parts.port).ok
              THEN LinkErr("InvalidNodeFormat")
         ELSE LinkOk(ShadowsocksNode(parts,
                                     parse_host_port(parts.host, parts.port).host,
                                     parse_host_port(parts.host, parts.port).port))
    ELSE IF ~parts.decodes THEN LinkErr("Base64DecodeError")
         ELSE IF ~is_valid_ss_cipher(parts.cipher) THEN LinkErr("InvalidNodeFormat")
         ELSE IF ~parse_host_port(parts.host, parts.port).ok
              THEN LinkErr("InvalidNodeFormat")
         ELSE LinkOk(ShadowsocksNode(parts,
                                     parse_host_port(parts.host, parts.port).host,
                                     parse_host_port(parts.host, parts.port).port))

\* parse_ssr: the main part of the model's links has its six fields and no
\* IPv6 server; the port has to parse as u16, then the cipher is checked; the
\* fragment stands for the remarks parameter
parse_ssr(parts) ==
    IF ~parts.decodes THEN LinkErr("Base64DecodeError")
    ELSE IF parts.port = None \/ parts.port[1] > MaxPort
         THEN LinkErr("InvalidNodeFormat")
    ELSE IF ~is_valid_ssr_cipher(parts.cipher) THEN LinkErr("InvalidNodeFormat")
    ELSE LinkOk([MkNode("ssr", FragmentOr(parts, parts.host), parts.host,
                        parts.port[1], parts.user)
                    EXCEPT !.cipher = Join(parts.cipher)])

\* parse_trojan: the endpoint and the password
parse_trojan(parts) ==
    IF ~UrlParses(parts) THEN LinkErr("UrlParseError")
    ELSE IF parts.user = "" THEN LinkErr("MissingField")
    ELSE IF host_str(parts) = None THEN LinkErr("MissingField")
    ELSE LinkOk(MkNode("trojan", FragmentOr(parts, parts.host), parts.host,
                       UnwrapOr(parts.port, 443), parts.user))

\* parse_hysteria: the endpoint; the port is required and the link of the
\* model has no auth parameter
parse_hysteria(parts) ==
    IF ~UrlParses(parts) THEN LinkErr("UrlParseError")
    ELSE IF host_str(parts) = None THEN LinkErr("InvalidNodeFormat")
    ELSE IF parts.port = None THEN LinkErr("InvalidNodeFormat")
    ELSE LinkOk(MkNode("hysteria",
                       NonEmptyOr(parts, parts.host \o ":" \o ToString(parts.port[1])),
                       parts.host, parts.port[1], NoneStr))

\* parse_hysteria2: the endpoint and the password
parse_hysteria2(parts) ==
    IF ~UrlParses(parts) THEN LinkErr("UrlParseError")
    ELSE IF parts.user = "" THEN LinkErr("MissingField")
    ELSE IF host_str(parts) = None THEN LinkErr("MissingField")
    ELSE LinkOk(MkNode("hysteria2", FragmentOr(parts, parts.host), parts.host,
                       UnwrapOr(parts.port, 443), parts.user))

\* parse_tuic: the endpoint and the uuid, which may be absent
parse_tuic(parts) ==
    IF ~UrlParses(parts) THEN LinkErr("UrlParseError")
    ELSE IF host_str(parts) = None THEN LinkErr("MissingField")
    ELSE LinkOk(MkNode("tuic", FragmentOr(parts, parts.host), parts.host,
                       UnwrapOr(parts.port, 443),
                       IF parts.user # "" THEN parts.user ELSE NoneStr))

\* parse_wireguard: the endpoint and the two required keys
parse_wireguard(parts) ==
    IF ~UrlParses(parts) THEN LinkErr("UrlParseError")
    ELSE IF host_str(parts) = None THEN LinkErr("InvalidNodeFormat")
    ELSE IF get_param(parts.query.pk) = None THEN LinkErr("InvalidNodeFormat")
    ELSE IF get_param(parts.query.peer_pk) = None THEN LinkErr("InvalidNodeFormat")
    ELSE LinkOk(MkNode("wireguard",
                       NonEmptyOr(parts, "WG-" \o parts.host \o ":"
                                        \o ToString(UnwrapOr(parts.port, 51820))),
                       parts.host, UnwrapOr(parts.port, 51820),
                       parts.query.peer_pk[1]))

\* parse_single_link: dispatch on the prefix, then the parser of the protocol
parse_single_link(link) ==
    IF link.scheme \notin SupportedSchemes
    THEN [ok |-> FALSE, node |-> None, err |-> "UnsupportedProtocol"]
    ELSE IF link.parts.form = "none"
    THEN IF link.wellformed
         THEN [ok |-> TRUE, node |-> link.node, err |-> ""]
         ELSE [ok |-> FALSE, node |-> None, err |-> "InvalidNodeFormat"]
    ELSE CASE link.scheme = "vless" -> parse_vless_link(link.parts)
           [] link.scheme = "vmess" -> parse_vmess(link.parts)
           [] link.scheme = "ss" -> parse_shadowsocks(link.parts)
           [] link.scheme = "ssr" -> parse_ssr(link.parts)
           [] link.scheme = "trojan" -> parse_trojan(link.parts)
           [] link.scheme \in {"hysteria2", "hy2"} -> parse_hysteria2(link.parts)
           [] link.scheme \in {"hysteria", "hy"} -> parse_hysteria(link.parts)
           [] link.scheme = "tuic" -> parse_tuic(link.parts)
           [] OTHER -> parse_wireguard(link.parts)

\* clean_subscription_input: BOM and line endings do not occur in the model
clean_subscription_input(content) == TrimEnd(TrimStart(content))

\* looks_like_base64, on the text without its line breaks
looks_like_base64(content) ==
    \A i \in 1..Len(content) :
        ~HasSchemeSep(content[i]) /\ Base64Chars(content[i])

\* decode_base64_flexible on the text without its line breaks.  A base64
\* line of the model ends in "=" padding and a word is no base64 at all, so
\* only the empty text and a single base64 line decode
decode_base64_flexible(content) ==
    LET lines == NonEmptyLines(content)
    IN  IF lines = <<>> THEN [ok |-> TRUE, text |-> <<>>]
        ELSE IF Len(lines) = 1 /\ Base64Decodes(lines[1])
             THEN [ok |-> TRUE, text |-> lines[1].enc[1]]
        ELSE [ok |-> FALSE, text |-> <<>>]

\* the warning the loop of parse_subscription_content records for a line that
\* did not parse: the first 50 characters of the line, "..." when it is longer,
\* and the error
ParseWarning(line, err) ==
    [line |-> line.id,
     shown |-> IF line.len > 50 THEN 50 ELSE line.len,
     ellipsis |-> line.len > 50,
     error |-> err]

RECURSIVE ParseLinesStopAtError(_)
\* a faulty loop that stops at the first line that does not parse
ParseLinesStopAtError(lines) ==
    IF lines = <<>> THEN [nodes |-> <<>>, warnings |-> <<>>]
    ELSE LET line == Head(lines)
             link == parse_single_link(line)
         IN  IF IsEmptyLine(line) \/ line.scheme = "#"
             THEN ParseLinesStopAtError(Tail(lines))
             ELSE IF link.ok
                  THEN [nodes |-> link.node
                                    \o ParseLinesStopAtError(Tail(lines)).nodes,
                        warnings |-> ParseLinesStopAtError(Tail(lines)).warnings]
                  ELSE [nodes |-> <<>>,
                        warnings |-> <<ParseWarning(line, link.err)>>]

RECURSIVE ParseLines(_)
\* the loop of parse_subscription_content over the lines: an empty line or a
\* comment is passed over, a node is pushed, an error is recorded and the loop
\* goes on
ParseLines(lines) ==
    IF lines = <<>> THEN [nodes |-> <<>>, warnings |-> <<>>]
    ELSE LET line == Head(lines)
             rest == ParseLines(Tail(lines))
             parsed == parse_single_link(line)
         IN  IF IsEmptyLine(line) \/ line.scheme = "#" THEN rest
             ELSE IF parsed.ok
                  THEN [nodes |-> parsed.node \o rest.nodes,
                        warnings |-> rest.warnings]
                  ELSE [nodes |-> rest.nodes,
                        warnings |-> <<ParseWarning(line, parsed.err)>>
                                        \o rest.warnings]

\* parse_subscription_content; warnings is its local list, which it drops
parse_subscription_content(content) ==
    LET cleaned == clean_subscription_input(content)
        decoded ==
            IF looks_like_base64(cleaned) /\ decode_base64_flexible(cleaned).ok
            THEN clean_subscription_input(decode_base64_flexible(cleaned).text)
            ELSE cleaned
        got == ParseLines(decoded)
    IN  IF got.nodes = <<>> /\ got.warnings # <<>>
        THEN [ok |-> FALSE, nodes |-> <<>>, warnings |-> got.warnings]
        ELSE [ok |-> TRUE, nodes |-> got.nodes, warnings |-> got.warnings]

(***************************************************************************)
(* filter.rs                                                               *)
(***************************************************************************)
RECURSIVE DedupFrom(_, _)
\* the filter closure of deduplicate_nodes: seen.insert(key) is true for a new key
DedupFrom(nodes, seen) ==
    IF nodes = <<>> THEN <<>>
    ELSE LET key == dedup_key(Head(nodes))
         IN  IF key \in seen THEN DedupFrom(Tail(nodes), seen)
             ELSE <<Head(nodes)>> \o DedupFrom(Tail(nodes), seen \cup {key})

\* a faulty dedup that keeps the last node of each key instead of the first
DedupKeepLast(nodes) ==
    LET Reverse(q) == [i \in 1..Len(q) |-> q[Len(q) + 1 - i]]
    IN  Reverse(DedupFrom(Reverse(nodes), {}))

\* deduplicate_nodes
deduplicate_nodes(nodes) == DedupFrom(nodes, {})

\* a faulty, lenient filter_nodes that treats a pattern that does not compile
\* like an absent one
ActivePatternLenient(pattern) ==
    IF IsSome(pattern) /\ pattern[1] # <<>> /\ RegexCompiles(pattern[1])
    THEN pattern ELSE None

\* the compiled regex of an optional pattern of filter_nodes: None when the
\* pattern is absent or empty
ActivePattern(pattern) ==
    IF IsSome(pattern) /\ pattern[1] # <<>> THEN pattern ELSE None

\* a faulty closure that forgets the exclude pattern
FilterKeepsIncludeOnly(node, include_re, exclude_re) ==
    IsSome(include_re) => IsMatch(include_re[1], name(node))

\* the closure of filter_nodes
FilterKeeps(node, include_re, exclude_re) ==
    /\ IsSome(include_re) => IsMatch(include_re[1], name(node))
    /\ IsSome(exclude_re) => ~IsMatch(exclude_re[1], name(node))

\* filter_nodes: Err(InvalidRegex) carries the pattern that did not compile
filter_nodes(nodes, include_pattern, exclude_pattern) ==
    LET include_re == ActivePattern(include_pattern)
        exclude_re == ActivePattern(exclude_pattern)
    IN  IF IsSome(include_re) /\ ~RegexCompiles(include_re[1])
        THEN [ok |-> FALSE, pattern |-> include_re, nodes |-> <<>>]
        ELSE IF IsSome(exclude_re) /\ ~RegexCompiles(exclude_re[1])
        THEN [ok |-> FALSE, pattern |-> exclude_re, nodes |-> <<>>]
        ELSE [ok |-> TRUE, pattern |-> None,
              nodes |-> SelectSeq(nodes,
                            LAMBDA n : FilterKeeps(n, include_re, exclude_re))]

\* rename_nodes
rename_nodes(nodes, find_pattern, replace_with) ==
    IF find_pattern = <<>> THEN [ok |-> TRUE, pattern |-> None, nodes |-> nodes]
    ELSE IF ~RegexCompiles(find_pattern)
    THEN [ok |-> FALSE, pattern |-> Some(find_pattern), nodes |-> <<>>]
    ELSE [ok |-> TRUE, pattern |-> None,
          nodes |-> [i \in 1..Len(nodes) |->
                        set_name(nodes[i],
                                 ReplaceAll(find_pattern, name(nodes[i]),
                                            replace_with))]]

\* Step 4 of convert: rename_nodes is called when pattern and replacement are
\* both given and the pattern is not empty
RenameStep(nodes, pattern, replacement) ==
    IF IsSome(pattern) /\ IsSome(replacement) /\ pattern[1] # <<>>
    THEN rename_nodes(nodes, pattern[1], replacement[1])
    ELSE [ok |-> TRUE, pattern |-> None, nodes |-> nodes]

(***************************************************************************)
(* ini_parser.rs.  A template text is given by what Ini::load_from_str     *)
(* makes of it: wellformed says whether the INI loads, custom is the       *)
(* sequence of the custom_proxy_group and ruleset lines of the [custom]    *)
(* section and rule_section the lines of the [Rule] section, each in the   *)
(* order of the text.  A line is given by its fields between the           *)
(* separators: the parts of a group line between the backticks, the parts  *)
(* of a rule between the commas.  A matcher is a record [kind, value] with *)
(* kind Literal, Pattern, Special or GroupRef.                             *)
(***************************************************************************)
Matcher(kind, value) == [kind |-> kind, value |-> value]

\* a field of a part between its commas: a number u32 parses, the empty
\* string, or any other text
Num(n) == [kind |-> "num", value |-> n]
Blank == [kind |-> "empty", value |-> 0]
Word == [kind |-> "word", value |-> 0]

\* a part of a group line without a comma that is neither a URL nor a number
TextPart(text) ==
    [text |-> text, is_url |-> FALSE,
     fields |-> <<IF text = <<>> THEN Blank ELSE Word>>]
\* a part that starts with http:// or https://
UrlPart(url) == [text |-> <<url>>, is_url |-> TRUE, fields |-> <<Word>>]
\* a part given by its text and by its fields between the commas
CommaPart(text, fields) == [text |-> <<text>>, is_url |-> FALSE, fields |-> fields]

IniLine(key, group_name, group_type, parts, target, prefix, url, stem, rule) ==
    [key |-> key, name |-> group_name, group_type |-> group_type,
     parts |-> parts, target |-> target, prefix |-> prefix, url |-> url,
     stem |-> stem, rule |-> rule]

\* custom_proxy_group=name`type`part`part...
GroupLine(group_name, group_type, parts) ==
    IniLine("custom_proxy_group", group_name, group_type, parts, "", "", "", "", <<>>)
\* ruleset=target,prefix url   (stem is the file name of the URL without its
\* extension)
RulesetLine(target, prefix, url, stem) ==
    IniLine("ruleset", <<>>, "", <<>>, target, prefix, url, stem, <<>>)
\* ruleset=target,[]rule
InlineRulesetLine(target, rule) ==
    IniLine("ruleset", <<>>, "", <<>>, target, "[]", "", "", rule)

IniText(id, empty, wellformed, custom, rule_section) ==
    [id |-> id, empty |-> empty, wellformed |-> wellformed, custom |-> custom,
     rule_section |-> rule_section]

EmptyIniConfig == [proxy_groups |-> <<>>, rules |-> <<>>, ruleset_urls |-> <<>>]

\* custom_proxy_group=Proxy`select`[]Auto`[]DIRECT`^a
\* custom_proxy_group=Auto`url-test`.*b
\* ruleset=Proxy,clash-ipcidr:https://example.com/cidr.list
\* ruleset=Proxy,[]FINAL
GoodIni ==
    IniText("good.ini", FALSE, TRUE,
            <<GroupLine(<<"Proxy">>, "select",
                        <<TextPart(<<"[]", "Auto">>), TextPart(<<"[]", "DIRECT">>),
                          TextPart(<<"^", "a">>)>>),
              GroupLine(<<"Auto">>, "url-test", <<TextPart(<<".*", "b">>)>>),
              RulesetLine("Proxy", "clash-ipcidr:", "https://example.com/cidr.list",
                          "cidr"),
              InlineRulesetLine("Proxy", <<"FINAL">>)>>,
            <<>>)

\* custom_proxy_group=Proxy`select`(`[]DIRECT
\* ruleset=Proxy,[]FINAL
PatternIni ==
    IniText("pattern.ini", FALSE, TRUE,
            <<GroupLine(<<"Proxy">>, "select",
                        <<TextPart(<<"(">>), TextPart(<<"[]", "DIRECT">>)>>),
              InlineRulesetLine("Proxy", <<"FINAL">>)>>,
            <<>>)

\* [custom]
\* custom_proxy_group=Mix`select`^a`a`.*`[]Auto`[]Auto`[]REJECT
\* custom_proxy_group=Auto`fallback`.*`http://t/204`60,5
\* ruleset=Mix,[]GEOIP,CN
\* ruleset=Mix,clash-domain:https://example.com/dom.list
\* ruleset=Auto,clash-classic:https://example.com/cls.yaml
\* ruleset=Mix,clash-ipcidr:https://example.com/ip.list
\* ruleset=Mix,https://example.com/plain.txt
\* [Rule]
\* MATCH,Mix
RichIni ==
    IniText("rich.ini", FALSE, TRUE,
            <<GroupLine(<<"Mix">>, "select",
                        <<TextPart(<<"^", "a">>), TextPart(<<"a">>),
                          TextPart(<<".*">>), TextPart(<<"[]", "Auto">>),
                          TextPart(<<"[]", "Auto">>), TextPart(<<"[]", "REJECT">>)>>),
              GroupLine(<<"Auto">>, "fallback",
                        <<TextPart(<<".*">>), UrlPart("http://t/204"),
                          CommaPart("60,5", <<Num(60), Num(5)>>)>>),
              InlineRulesetLine("Mix", <<"GEOIP", "CN">>),
              RulesetLine("Mix", "clash-domain:", "https://example.com/dom.list",
                          "dom"),
              RulesetLine("Auto", "clash-classic:", "https://example.com/cls.yaml",
                          "cls"),
              RulesetLine("Mix", "clash-ipcidr:", "https://example.com/ip.list", "ip"),
              RulesetLine("Mix", "", "https://example.com/plain.txt", "plain")>>,
            <<<<"MATCH", "Mix">>>>)

\* a text the INI loader rejects
BadIni == IniText("bad.ini", FALSE, FALSE, <<>>, <<>>)
EmptyIni == IniText("", TRUE, TRUE, <<>>, <<>>)

\* the characters that make is_regex_pattern take a part for a pattern
RegexAtoms == {"*", ".*", "^", "$", "(", "[", "|", "+", "?", "\\"}

\* is_regex_pattern
is_regex_pattern(part) == \E i \in 1..Len(part) : part[i] \in RegexAtoms

\* parse_proxy_matcher
parse_proxy_matcher(part) ==
    IF part # <<>> /\ Head(part) = "[]"
    THEN LET inner == Tail(part)
         IN  IF inner = <<"DIRECT">> \/ inner = <<"REJECT">>
             THEN Matcher("Special", inner)
             ELSE Matcher("GroupRef", inner)
    ELSE IF is_regex_pattern(part) THEN Matcher("Pattern", part)
    ELSE Matcher("Literal", part)

\* is_interval_param: the part is not empty and its first field parses as u32
is_interval_param(part) ==
    /\ part.text # <<>>
    /\ part.fields[1].kind = "num"

\* str::parse::<u32>().ok() of a field
ParseU32(field) == IF field.kind = "num" THEN Some(field.value) ELSE None

\* parse_interval_param
parse_interval_param(part) ==
    [interval |-> ParseU32(part.fields[1]),
     timeout |-> IF Len(part.fields) >= 2 THEN ParseU32(part.fields[2]) ELSE None,
     tolerance |-> IF Len(part.fields) >= 3 THEN ParseU32(part.fields[3]) ELSE None]

RECURSIVE ParseMatchers(_)
\* the loop of parse_proxy_group_line over the parts left for the matchers:
\* an empty part is passed over
ParseMatchers(parts) ==
    IF parts = <<>> THEN <<>>
    ELSE IF Head(parts).text = <<>> THEN ParseMatchers(Tail(parts))
    ELSE <<parse_proxy_matcher(Head(parts).text)>> \o ParseMatchers(Tail(parts))

\* parse_proxy_group_line: for the tested types the interval parameters and
\* the URL are taken from the end of the line
parse_proxy_group_line(line) ==
    LET proxy_parts == line.parts
        n == Len(proxy_parts)
        needs_url_test == line.group_type \in {"url-test", "fallback", "load-balance"}
        last_is_params == needs_url_test /\ n >= 1 /\ is_interval_param(proxy_parts[n])
        params == IF last_is_params THEN parse_interval_param(proxy_parts[n])
                  ELSE [interval |-> None, timeout |-> None, tolerance |-> None]
        after_params == IF last_is_params THEN n - 1 ELSE n
        takes_url == /\ needs_url_test
                     /\ after_params >= 1
                     /\ proxy_parts[after_params].is_url
        proxy_end_idx == IF takes_url THEN after_params - 1 ELSE after_params
    IN  [name |-> line.name, group_type |-> line.group_type,
         proxies |-> ParseMatchers(SubSeq(proxy_parts, 1, proxy_end_idx)),
         url |-> IF takes_url THEN Some(proxy_parts[after_params].text[1]) ELSE None,
         interval |-> params.interval, timeout |-> params.timeout,
         tolerance |-> params.tolerance]

\* parse_inline_rule: the rule of a ruleset line behind "[]" (Some(rule), or
\* None when the content is empty)
parse_inline_rule(rule_content, target) ==
    IF rule_content = <<>> THEN None
    ELSE IF Len(rule_content) = 1 /\ rule_content[1] \in {"FINAL", "MATCH"}
    THEN Some([rule_type |-> "MATCH", value |-> "", target |-> target,
               no_resolve |-> FALSE])
    ELSE IF Len(rule_content) >= 2
    THEN Some([rule_type |-> rule_content[1], value |-> rule_content[2],
               target |-> target,
               no_resolve |-> Len(rule_content) > 2 /\ rule_content[3] = "no-resolve"])
    ELSE Some([rule_type |-> rule_content[1], value |-> "", target |-> target,
               no_resolve |-> FALSE])

\* parse_rule_line: a line of the [Rule] section
parse_rule_line(line) ==
    IF Len(line) < 2 THEN None
    ELSE IF line[1] \in {"MATCH", "FINAL"}
    THEN Some([rule_type |-> "MATCH", value |-> "", target |-> line[2],
               no_resolve |-> FALSE])
    ELSE IF Len(line) < 3 THEN None
    ELSE Some([rule_type |-> line[1], value |-> line[2], target |-> line[3],
               no_resolve |-> \E i \in 1..Len(line) : line[i] = "no-resolve"])

RECURSIVE CustomGroups(_)
\* the groups of the [custom] section, in line order
CustomGroups(custom) ==
    IF custom = <<>> THEN <<>>
    ELSE (IF Head(custom).key = "custom_proxy_group"
          THEN <<parse_proxy_group_line(Head(custom))>> ELSE <<>>)
         \o CustomGroups(Tail(custom))

RECURSIVE CustomRules(_)
\* the rules of the "[]" ruleset lines of the [custom] section, in line order
CustomRules(custom) ==
    IF custom = <<>> THEN <<>>
    ELSE (IF Head(custom).key = "ruleset" /\ Head(custom).prefix = "[]"
          THEN parse_inline_rule(Head(custom).rule, Head(custom).target)
          ELSE <<>>)
         \o CustomRules(Tail(custom))

RECURSIVE CustomRulesetUrls(_)
\* the remote rulesets of the [custom] section, in line order
CustomRulesetUrls(custom) ==
    IF custom = <<>> THEN <<>>
    ELSE (IF Head(custom).key = "ruleset" /\ Head(custom).prefix # "[]"
          THEN <<[target |-> Head(custom).target, prefix |-> Head(custom).prefix,
                  url |-> Head(custom).url, stem |-> Head(custom).stem]>>
          ELSE <<>>)
         \o CustomRulesetUrls(Tail(custom))

RECURSIVE SectionRules(_)
\* the rules of the [Rule] section, in line order
SectionRules(section) ==
    IF section = <<>> THEN <<>>
    ELSE parse_rule_line(Head(section)) \o SectionRules(Tail(section))

\* parse_ini_config
parse_ini_config(content) ==
    IF content.wellformed
    THEN [ok |-> TRUE,
          config |-> [proxy_groups |-> CustomGroups(content.custom),
                      rules |-> CustomRules(content.custom)
                                    \o SectionRules(content.rule_section),
                      ruleset_urls |-> CustomRulesetUrls(content.custom)]]
    ELSE [ok |-> FALSE, config |-> EmptyIniConfig]

\* Vec::contains, then push
PushIfAbsent(list, x) ==
    IF \E i \in 1..Len(list) : list[i] = x THEN list ELSE Append(list, x)

RECURSIVE PushMatches(_, _, _)
\* the Pattern arm of resolve_proxy_group: the names the regex matches, in
\* node order, each pushed unless the list has it
PushMatches(list, pattern, nodes) ==
    IF nodes = <<>> THEN list
    ELSE PushMatches(IF IsMatch(pattern, name(Head(nodes)))
                     THEN PushIfAbsent(list, name(Head(nodes)))
                     ELSE list,
                     pattern, Tail(nodes))

RECURSIVE ResolveMatchers(_, _, _)
\* the loop of resolve_proxy_group over the matchers
ResolveMatchers(list, matchers, nodes) ==
    IF matchers = <<>> THEN list
    ELSE LET m == Head(matchers)
             next ==
                CASE m.kind = "Literal" -> Append(list, m.value)
                  [] m.kind = "Pattern" ->
                        IF RegexCompiles(m.value)
                        THEN PushMatches(list, m.value, nodes)
                        ELSE list
                  [] m.kind = "Special" -> Append(list, m.value)
                  [] OTHER -> PushIfAbsent(list, m.value)
         IN  ResolveMatchers(next, Tail(matchers), nodes)

\* resolve_proxy_group
resolve_proxy_group(group, nodes) == ResolveMatchers(<<>>, group.proxies, nodes)

TestedTypes == {"url-test", "fallback", "load-balance"}

\* to_clash_proxy_groups: the map of one group, by key, and the order in
\* which the keys are inserted
ClashGroup(group, nodes) ==
    LET tested == group.group_type \in TestedTypes
    IN  [name |-> group.name,
         type |-> group.group_type,
         proxies |-> resolve_proxy_group(group, nodes),
         url |-> IF ~tested THEN None
                 ELSE IF IsSome(group.url) THEN group.url
                 ELSE Some("http://www.gstatic.com/generate_204"),
         interval |-> IF ~tested THEN None
                      ELSE IF IsSome(group.interval) THEN group.interval
                      ELSE Some(300),
         timeout |-> IF tested THEN group.timeout ELSE None,
         tolerance |-> IF group.group_type = "url-test"
                       THEN group.tolerance ELSE None,
         inserted |-> <<"name", "type", "proxies">>
                        \o (IF tested THEN <<"url", "interval">> ELSE <<>>)
                        \o (IF tested /\ IsSome(group.timeout)
                            THEN <<"timeout">> ELSE <<>>)
                        \o (IF group.group_type = "url-test" /\ IsSome(group.tolerance)
                            THEN <<"tolerance">> ELSE <<>>)]

\* to_clash_proxy_groups
to_clash_proxy_groups(parsed_groups, nodes) ==
    [i \in 1..Len(parsed_groups) |-> ClashGroup(parsed_groups[i], nodes)]

\* to_clash_rules
to_clash_rules(parsed_rules) ==
    [i \in 1..Len(parsed_rules) |->
        LET rule == parsed_rules[i]
        IN  IF rule.rule_type = "MATCH" THEN "MATCH," \o rule.target
            ELSE IF rule.no_resolve
            THEN rule.rule_type \o "," \o rule.value \o "," \o rule.target
                    \o ",no-resolve"
            ELSE rule.rule_type \o "," \o rule.value \o "," \o rule.target]

(***************************************************************************)
(* clash_config.rs.  A proxy map is a sequence of <<key, value>> pairs in  *)
(* insertion order (an IndexMap); the value of "name" is a name, the other *)
(* values are the text of the scalar.                                      *)
(***************************************************************************)
\* IndexMap::insert: a present key keeps its place and takes the new value
MapInsert(map, key, value) ==
    IF \E i \in 1..Len(map) : map[i][1] = key
    THEN [i \in 1..Len(map) |-> IF map[i][1] = key THEN <<key, value>> ELSE map[i]]
    ELSE Append(map, <<key, value>>)

\* a key of a map that is inserted when the Option<String> is Some and the
\* string is not empty
InsertNonEmpty(key, opt) ==
    IF IsSome(opt) /\ opt[1] # "" THEN <<<<key, <<opt[1]>>>>>> ELSE <<>>

\* the text of a bool
BoolText(b) == IF b THEN <<"true">> ELSE <<"false">>

\* the first four keys of every to_clash_map
BasicFields(n) ==
    <<<<"name", n.name>>, <<"type", <<n.type>>>>, <<"server", <<n.server>>>>,
      <<"port", <<ToString(n.port)>>>>>>

\* a faulty VlessNode::to_clash_map: flow is inserted in the place of the
\* field in the struct, before network and tls
VlessMapFlowFirst(n) ==
    BasicFields(n)
        \o <<<<"uuid", <<n.uuid>>>>, <<"udp", <<"true">>>>>>
        \o InsertNonEmpty("flow", n.flow)
        \o <<<<"network", <<"tcp">>>>,
             <<"tls", BoolText(IF IsSome(n.tls) THEN n.tls[1] ELSE FALSE)>>>>
        \o InsertNonEmpty("servername", n.servername)
        \o (IF IsSome(n.skip_cert_verify)
            THEN <<<<"skip-cert-verify", BoolText(n.skip_cert_verify[1])>>>> ELSE <<>>)
        \o (IF IsSome(n.reality_opts)
            THEN <<<<"reality-opts",
                     <<<<"public-key", <<n.reality_opts[1].public_key>>>>>>
                        \o InsertNonEmpty("short-id", n.reality_opts[1].short_id)>>>>
            ELSE <<>>)
        \o InsertNonEmpty("client-fingerprint", n.client_fingerprint)

\* VlessNode::to_clash_map: the keys are distinct, so each insert appends;
\* the value of reality-opts is the nested map
VlessClashMap(n) ==
    BasicFields(n)
        \o <<<<"uuid", <<n.uuid>>>>, <<"udp", <<"true">>>>,
             <<"tls", BoolText(IF IsSome(n.tls) THEN n.tls[1] ELSE FALSE)>>,
             <<"network", <<"tcp">>>>>>
        \o InsertNonEmpty("flow", n.flow)
        \o InsertNonEmpty("servername", n.servername)
        \o (IF IsSome(n.skip_cert_verify)
            THEN <<<<"skip-cert-verify", BoolText(n.skip_cert_verify[1])>>>> ELSE <<>>)
        \o (IF IsSome(n.reality_opts)
            THEN <<<<"reality-opts",
                     <<<<"public-key", <<n.reality_opts[1].public_key>>>>>>
                        \o InsertNonEmpty("short-id", n.reality_opts[1].short_id)>>>>
            ELSE <<>>)
        \o InsertNonEmpty("client-fingerprint", n.client_fingerprint)

\* Node::to_clash_proxy, for the variants of the model's nodes (the optional
\* fields of a TrojanNode are absent)
to_clash_proxy(n) ==
    CASE n.type = "vless" -> VlessClashMap(n)
      [] n.type = "trojan" ->
            BasicFields(n)
                \o <<<<"password", <<n.password>>>>, <<"udp", <<"true">>>>>>
      [] OTHER -> BasicFields(n)

\* ClashConfigBuilder::new
ClashConfigBuilderNew ==
    [proxies |-> <<>>, proxy_groups |-> <<>>, rules |-> <<>>,
     rule_providers |-> <<>>, enable_tun |-> FALSE, enable_udp |-> TRUE,
     enable_tfo |-> FALSE, skip_cert_verify |-> FALSE]

\* ClashConfigBuilder::with_tun
with_tun(builder) == [builder EXCEPT !.enable_tun = TRUE]

\* ClashConfigBuilder::with_global_options
with_global_options(builder, enable_udp, enable_tfo, skip_cert_verify) ==
    [builder EXCEPT !.enable_udp = enable_udp, !.enable_tfo = enable_tfo,
                    !.skip_cert_verify = skip_cert_verify]

\* the closure of with_nodes: the map of the node with the switches the
\* builder holds at this moment
ProxyOf(builder, n) ==
    LET m0 == to_clash_proxy(n)
        m1 == IF builder.enable_udp THEN MapInsert(m0, "udp", <<"true">>) ELSE m0
        m2 == IF builder.enable_tfo THEN MapInsert(m1, "tfo", <<"true">>) ELSE m1
    IN  IF builder.skip_cert_verify
        THEN MapInsert(m2, "skip-cert-verify", <<"true">>) ELSE m2

\* ClashConfigBuilder::with_nodes (serde_yaml::to_value of a map of scalars
\* does not fail)
with_nodes(builder, nodes) ==
    [builder EXCEPT !.proxies = [i \in 1..Len(nodes) |-> ProxyOf(builder, nodes[i])]]

\* the names of the default groups, written in ASCII (the source has an emoji
\* and Chinese text, with a space inside, in each)
NodeSelect == <<"Node Select">>
AutoSelect == <<"Auto Select">>
DirectGroup == <<"Global Direct">>
RejectGroup == <<"Global Reject">>
FishGroup == <<"Fish">>

DefaultGroup(group_name, type, url, interval, proxies) ==
    [name |-> group_name, type |-> type, proxies |-> proxies, url |-> url,
     interval |-> interval, timeout |-> None, tolerance |-> None,
     inserted |-> <<"name", "type">>
                    \o (IF IsSome(url) THEN <<"url", "interval">> ELSE <<>>)
                    \o <<"proxies">>]

\* ClashConfigBuilder::with_default_groups
with_default_groups(builder, nodes) ==
    LET node_names == [i \in 1..Len(nodes) |-> name(nodes[i])]
    IN  [builder EXCEPT !.proxy_groups =
            <<DefaultGroup(NodeSelect, "select", None, None,
                           <<AutoSelect, DirectGroup>> \o node_names),
              DefaultGroup(AutoSelect, "url-test",
                           Some("http://www.gstatic.com/generate_204"),
                           Some(300), node_names),
              DefaultGroup(DirectGroup, "select", None, None, <<<<"DIRECT">>>>),
              DefaultGroup(RejectGroup, "select", None, None,
                           <<<<"REJECT">>, <<"DIRECT">>>>),
              DefaultGroup(FishGroup, "select", None, None,
                           <<NodeSelect, DirectGroup, AutoSelect>>)>>]

\* ClashConfigBuilder::with_default_rules
with_default_rules(builder) ==
    [builder EXCEPT !.rules =
        <<"DOMAIN-SUFFIX,local,Global Direct",
          "IP-CIDR,192.168.0.0/16,Global Direct,no-resolve",
          "IP-CIDR,10.0.0.0/8,Global Direct,no-resolve",
          "IP-CIDR,172.16.0.0/12,Global Direct,no-resolve",
          "IP-CIDR,127.0.0.0/8,Global Direct,no-resolve",
          "GEOIP,CN,Global Direct",
          "MATCH,Fish">>]

\* a faulty behavior: the prefix is not looked at
RulesetBehaviorClassical(ruleset) == "classical"

\* the behavior of a ruleset, from its prefix
RulesetBehavior(ruleset) ==
    CASE ruleset.prefix = "clash-domain:" -> "domain"
      [] ruleset.prefix = "clash-ipcidr:" -> "ipcidr"
      [] OTHER -> "classical"

\* derive_provider_name: the file name of the URL without its extension (the
\* stems of the model are short and need no sanitizing)
derive_provider_name(ruleset, index) ==
    IF ruleset.stem # "" THEN ruleset.stem ELSE "provider-" \o ToString(index)

\* ClashConfigBuilder::with_ini_config
with_ini_config(builder, ini_config, nodes) ==
    LET sets == ini_config.ruleset_urls
        provider(i) == derive_provider_name(sets[i], i - 1)
        ruleset_rules ==
            [i \in 1..Len(sets) |->
                IF RulesetBehavior(sets[i]) = "ipcidr"
                THEN "RULE-SET," \o provider(i) \o "," \o sets[i].target
                        \o ",no-resolve"
                ELSE "RULE-SET," \o provider(i) \o "," \o sets[i].target]
    IN  [builder EXCEPT
            !.proxy_groups = to_clash_proxy_groups(ini_config.proxy_groups, nodes),
            !.rules = ruleset_rules \o to_clash_rules(ini_config.rules),
            !.rule_providers =
                [i \in 1..Len(sets) |->
                    [name |-> provider(i), url |-> sets[i].url,
                     target |-> sets[i].target,
                     behavior |-> RulesetBehavior(sets[i])]]]

(***************************************************************************)
(* Emission.  A scalar of the document is its text and whether it stands   *)
(* in double quotes.  An element of a name is one character, or a run of   *)
(* characters none of which is special to YAML.                            *)
(***************************************************************************)
\* the characters a TLA+ string cannot hold
Backtick == "<backtick>"
DoubleQuote == "<dquote>"
Newline == "<newline>"

Scalar(text, quoted) == [text |-> text, quoted |-> quoted]

Contains(s, chars) == \E i \in 1..Len(s) : s[i] \in chars

\* format_yaml_value_simple, on a string
format_yaml_value_simple(s) ==
    Scalar(s, \/ Contains(s, {":", "#", Newline})
              \/ (s # <<>> /\ s[1] \in {" ", DoubleQuote, "'", "[", "{"})
              \/ (s # <<>> /\ s[Len(s)] = " ")
              \/ s \in {<<"t", "r", "u", "e">>, <<"f", "a", "l", "s", "e">>,
                        <<"n", "u", "l", "l">>}
              \/ s = <<>>)

\* format_yaml_value, on a string (the characters of the model are ASCII)
format_yaml_value(s) ==
    Scalar(s, \/ Contains(s, {":", "#", "[", "]", "{", "}", "&", "*", "!", "|",
                              ">", "'", DoubleQuote, "%", "@", Backtick})
              \/ (s # <<>> /\ s[1] \in {"-", "?"})
              \/ s = <<>>)

\* format_proxy_yaml: the keys in map order; reality-opts takes the arm of
\* the nested map, whose keys follow in their own order, and every other key
\* of the model's maps the arm of the regular key-value pairs
format_proxy_yaml(proxy) ==
    [i \in 1..Len(proxy) |->
        IF proxy[i][1] = "reality-opts"
        THEN <<proxy[i][1],
               [j \in 1..Len(proxy[i][2]) |->
                    <<proxy[i][2][j][1], format_yaml_value(proxy[i][2][j][2])>>]>>
        ELSE <<proxy[i][1], format_yaml_value(proxy[i][2])>>]

\* a faulty format_group_yaml: the keys are written in the order of the map
FormatGroupInMapOrder(group) ==
    [name |-> format_yaml_value_simple(group.name),
     keys |-> group.inserted,
     type |-> group.type,
     url |-> group.url,
     interval |-> group.interval,
     timeout |-> group.timeout,
     tolerance |-> group.tolerance,
     proxies |-> [i \in 1..Len(group.proxies) |->
                    format_yaml_value_simple(group.proxies[i])]]

\* format_group_yaml: the keys in the fixed order, the present ones only
format_group_yaml(group) ==
    [name |-> format_yaml_value_simple(group.name),
     keys |-> <<"name", "type">>
                \o (IF IsSome(group.url) THEN <<"url">> ELSE <<>>)
                \o (IF IsSome(group.interval) THEN <<"interval">> ELSE <<>>)
                \o (IF IsSome(group.timeout) THEN <<"timeout">> ELSE <<>>)
                \o (IF IsSome(group.tolerance) THEN <<"tolerance">> ELSE <<>>)
                \o <<"proxies">>,
     type |-> group.type,
     url |-> group.url,
     interval |-> group.interval,
     timeout |-> group.timeout,
     tolerance |-> group.tolerance,
     proxies |-> [i \in 1..Len(group.proxies) |->
                    format_yaml_value_simple(group.proxies[i])]]

\* the characters YAML does not let a plain scalar start with: the reserved
\* indicators, the directive sign, and the alias sign (no anchor is defined)
PlainStartRejected == {"@", Backtick, "%", "*"}

\* serde_yaml reads the scalar back
ScalarParses(scalar) ==
    scalar.quoted \/ scalar.text = <<>> \/ ~(scalar.text[1] \in PlainStartRejected)

\* serde_yaml::from_str on the emitted document: the scalars the emitter may
\* leave unquoted are the values of the proxies and the names in the groups
YamlParses(doc) ==
    /\ \A i \in 1..Len(doc.proxies) : \A j \in 1..Len(doc.proxies[i]) :
            IF doc.proxies[i][j][1] = "reality-opts"
            THEN \A o \in 1..Len(doc.proxies[i][j][2]) :
                    ScalarParses(doc.proxies[i][j][2][o][2])
            ELSE ScalarParses(doc.proxies[i][j][2])
    /\ \A i \in 1..Len(doc.proxy_groups) :
            /\ ScalarParses(doc.proxy_groups[i].name)
            /\ \A j \in 1..Len(doc.proxy_groups[i].proxies) :
                    ScalarParses(doc.proxy_groups[i].proxies[j])

\* ClashConfigBuilder::build_yaml, up to the validation: the sections of the
\* emitted text that depend on the request
EmitDocument(builder) ==
    [tun |-> builder.enable_tun,
     proxies |-> [i \in 1..Len(builder.proxies) |->
                    format_proxy_yaml(builder.proxies[i])],
     proxy_groups |-> [i \in 1..Len(builder.proxy_groups) |->
                        format_group_yaml(builder.proxy_groups[i])],
     rule_providers |-> builder.rule_providers,
     rules |-> builder.rules]

\* the outcomes of serde_yaml::from_str on the rule-providers mapping of the
\* emitted text: TRUE for a parse that succeeds. A mapping whose keys differ
\* parses; for one that repeats a key the parse keeps the last entry or
\* fails, as the serde_yaml the build resolves decides.
DuplicateKeyOutcomes(doc) ==
    IF \A i, j \in 1..Len(doc.rule_providers) :
            doc.rule_providers[i].name = doc.rule_providers[j].name => i = j
    THEN {TRUE}
    ELSE BOOLEAN

\* a faulty build_yaml: the emitted text is returned without being parsed
BuildYamlUnvalidated(builder) == [ok |-> TRUE, doc |-> EmitDocument(builder)]

\* ClashConfigBuilder::build_yaml: the emission, then the parse of the
\* emitted text
build_yaml(builder) ==
    [ok |-> YamlParses(EmitDocument(builder)), doc |-> EmitDocument(builder)]

(***************************************************************************)
(* engine.rs: the request, the result, and the order of the stages         *)
(***************************************************************************)
\* include_regex and rename_pattern of a request
OptPatterns == {None, Some(<<>>), Some(<<"a">>), Some(<<"(">>)}
\* exclude_regex of a request
OptExcludes == {None, Some(<<>>), Some(<<"b">>), Some(<<"(">>)}
\* rename_replacement of a request
OptReplacements == {None, Some(<<"@">>)}

TemplateUrl == "http://tpl/a.ini"

\* <<ini_url, ini_content>> of a request
IniRequests ==
    {<<None, None>>, <<None, Some(EmptyIni)>>, <<None, Some(GoodIni)>>,
     <<None, Some(BadIni)>>, <<None, Some(PatternIni)>>, <<None, Some(RichIni)>>,
     <<Some(""), None>>, <<Some(""), Some(GoodIni)>>,
     <<Some(TemplateUrl), None>>, <<Some(TemplateUrl), Some(GoodIni)>>}

\* what the network does with the GET of the template
TemplateResponses ==
    {[transport |-> "timeout", status |-> 0, header |-> None, body |-> EmptyIni],
     [transport |-> "ok", status |-> 404, header |-> None, body |-> EmptyIni],
     [transport |-> "ok", status |-> 200, header |-> None, body |-> GoodIni],
     [transport |-> "ok", status |-> 200, header |-> None, body |-> BadIni]}

\* <<enable_udp, enable_tfo, skip_cert_verify, enable_tun>> of a request
GlobalOptions == {<<TRUE, FALSE, FALSE, FALSE>>, <<FALSE, TRUE, TRUE, TRUE>>}

\* Err(ConvertError): the variant, the message of an Internal error, the
\* pattern of an InvalidRegex error
ConvertErr(error, message, pattern) ==
    [ok |-> FALSE, error |-> error, message |-> message, pattern |-> pattern,
     yaml |-> None, node_count |-> 0, filtered_count |-> 0, group_count |-> 0,
     rule_count |-> 0, warnings |-> <<>>, subscription_info |-> None]

\* Ok(ConvertResult)
ConvertOk(yaml, node_count, filtered_count, group_count, rule_count, warns, info) ==
    [ok |-> TRUE, error |-> "", message |-> "", pattern |-> None,
     yaml |-> Some(yaml), node_count |-> node_count,
     filtered_count |-> filtered_count, group_count |-> group_count,
     rule_count |-> rule_count, warnings |-> warns, subscription_info |-> info]

\* a warning convert pushes: its text up to the number or error it carries
Warning(kind, n) == [kind |-> kind, n |-> n]

\* a faulty check: a node list is never taken for empty
NeverEmpty(list) == FALSE

\* Vec::is_empty, as convert asks it of the node list after the parse and
\* after the filter
is_empty(list) == list = <<>>

\* a faulty order of the steps: filter before dedup
StageAfterFilterFirst(stage) ==
    CASE stage = "parse" -> "filter"
      [] stage = "filter" -> "dedup"
      [] stage = "dedup" -> "rename"
      [] stage = "rename" -> "ini"
      [] stage = "ini" -> "build"
      [] OTHER -> "done"

\* the order of the steps of convert
StageAfter(stage) ==
    CASE stage = "parse" -> "dedup"
      [] stage = "dedup" -> "filter"
      [] stage = "filter" -> "rename"
      [] stage = "rename" -> "ini"
      [] stage = "ini" -> "build"
      [] OTHER -> "done"

\* Step 5 of convert when no fetch is needed: the config and the warning of
\* the ini_content arm (ini_url is None), or nothing (ini_url is Some(""))
LoadIniContent(ini_url, ini_content) ==
    IF IsSome(ini_url) THEN [config |-> None, warning |-> None]
    ELSE IF IsSome(ini_content) /\ ~ini_content[1].empty
    THEN IF parse_ini_config(ini_content[1]).ok
         THEN [config |-> Some(parse_ini_config(ini_content[1]).config),
               warning |-> None]
         ELSE [config |-> None, warning |-> Some(Warning("ini_content_parse", 0))]
    ELSE [config |-> None, warning |-> None]

\* Step 5 of convert after the fetch of ini_url: HttpClient::fetch, then
\* parse_ini_config
LoadIniFetched(resp) ==
    LET fetched == fetch_with_info(resp)
    IN  IF ~fetched.ok
        THEN [config |-> None, warning |-> Some(Warning("ini_fetch", 0))]
        ELSE IF parse_ini_config(fetched.body).ok
        THEN [config |-> Some(parse_ini_config(fetched.body).config),
              warning |-> None]
        ELSE [config |-> None, warning |-> Some(Warning("ini_parse", 0))]

\* Steps 6 and 7 of convert: the builder calls in the order of the source,
\* then build_yaml
BuildConfig(nodes, ini_config, enable_udp, enable_tfo, skip_cert_verify, enable_tun) ==
    LET b1 == with_nodes(ClashConfigBuilderNew, nodes)
        b2 == with_global_options(b1, enable_udp, enable_tfo, skip_cert_verify)
        b3 == IF enable_tun THEN with_tun(b2) ELSE b2
    IN  IF IsSome(ini_config)
        THEN [builder |-> with_ini_config(b3, ini_config[1], nodes),
              group_count |-> Len(ini_config[1].proxy_groups),
              rule_count |-> Len(ini_config[1].rules)
                                + Len(ini_config[1].ruleset_urls)]
        ELSE [builder |-> with_default_rules(with_default_groups(b3, nodes)),
              group_count |-> 5,
              rule_count |-> 7]

(***************************************************************************)
(* lib.rs: the node preview                                                *)
(***************************************************************************)
\* Node::protocol_type
protocol_type(node) ==
    CASE node.type = "vless" -> "VLESS"
      [] node.type = "vmess" -> "VMess"
      [] node.type = "ss" -> "SS"
      [] node.type = "ssr" -> "SSR"
      [] node.type = "trojan" -> "Trojan"
      [] node.type = "hysteria" -> "Hysteria"
      [] node.type = "hysteria2" -> "Hysteria2"
      [] node.type = "tuic" -> "TUIC"
      [] node.type = "wireguard" -> "WireGuard"

NodePreviewItem(node) ==
    [name |-> node.name, protocol |-> protocol_type(node),
     server |-> node.server, port |-> node.port]

\* parse_nodes behind resolve_content_with_info and parse_subscription_content,
\* from the nodes the parse returned: filter_nodes, then deduplicate_nodes,
\* then the preview items
parse_nodes(parsed, include_regex, exclude_regex) ==
    LET filtered == filter_nodes(parsed, include_regex, exclude_regex)
        kept == deduplicate_nodes(filtered.nodes)
    IN  IF ~filtered.ok
        THEN [ok |-> FALSE, nodes |-> <<>>]
        ELSE [ok |-> TRUE,
              nodes |-> [i \in 1..Len(kept) |-> NodePreviewItem(kept[i])]]

(***************************************************************************)
(* State.                                                                  *)
(***************************************************************************)
VARIABLES
    pc,                \* where convert stands
    subscription,      \* request.subscription, split into its lines
    request,           \* the other fields of the ConvertRequest
    urls,              \* resolve_subscription: the URL items
    direct_content,    \* resolve_subscription: the inline items
    completed,         \* the fetch futures that have resolved, in that order
    results,           \* the outputs join_all collects
    served,            \* what the network did with the GET of each URL
    k,                 \* index of the loop over results
    result_lines,      \* resolve_subscription: the lines collected so far
    first_sub_info,    \* resolve_subscription: the info kept so far
    raw_content,       \* convert: the resolved blob
    subscription_info, \* convert: the info resolve_subscription returned
    nodes,             \* convert: the node list
    initial_count,     \* convert: the number of parsed nodes
    filtered_count,    \* convert: the number of nodes after Step 4
    warnings,          \* convert: the warnings pushed so far
    ini_config,        \* convert: the parsed template, if any
    result,            \* what convert returned: None until it returns
    failed_urls,       \* number of URLs whose fetch failed (history)
    parsed_nodes,      \* the nodes parse_subscription_content returned (history)
    skipped,           \* the list of line warnings it built and dropped (history)
    template,          \* what the network did with the GET of the template (history)
    trace              \* the steps of convert that ran, in order (history)

vars == <<pc, subscription, request, urls, direct_content, completed, results,
          served, k, result_lines, first_sub_info, raw_content,
          subscription_info, nodes, initial_count, filtered_count, warnings,
          ini_config, result, failed_urls, parsed_nodes, skipped, template,
          trace>>

resolveLocals == <<urls, direct_content, completed, results, served, k,
                   result_lines, first_sub_info>>

convertLocals == <<nodes, initial_count, filtered_count, warnings, ini_config>>

history == <<failed_urls, parsed_nodes, skipped, template>>

InitWith(inputs) ==
    /\ pc = "start"
    /\ subscription \in inputs
    /\ request = [include_regex |-> Unread, exclude_regex |-> Unread,
                  rename_pattern |-> Unread, rename_replacement |-> Unread,
                  ini_url |-> Unread, ini_content |-> Unread,
                  options |-> Unread]
    /\ urls = <<>>
    /\ direct_content = <<>>
    /\ completed = <<>>
    /\ results = <<>>
    /\ served = <<>>
    /\ k = 0
    /\ result_lines = <<>>
    /\ first_sub_info = None
    /\ raw_content = <<>>
    /\ subscription_info = None
    /\ nodes = <<>>
    /\ initial_count = 0
    /\ filtered_count = 0
    /\ warnings = <<>>
    /\ ini_config = None
    /\ result = None
    /\ failed_urls = 0
    /\ parsed_nodes = <<>>
    /\ skipped = <<>>
    /\ template = None
    /\ trace = <<>>

Init == InitWith(Subscriptions)

(***************************************************************************)
(* resolve_subscription up to the await: the items are classified and one  *)
(* fetch per URL is issued, all before any of them is awaited.  The text   *)
(* of the model's requests contains no "|", so it is split by lines.       *)
(***************************************************************************)
ResolveStart ==
    /\ pc = "start"
    /\ LET items == SelectSeq(subscription, LAMBDA it : ~IsEmptyLine(it))
           us == SelectSeq(items, IsUrl)
       IN  /\ urls' = us
           /\ direct_content' = SelectSeq(items, LAMBDA it : ~IsUrl(it))
           /\ results' = [i \in 1..Len(us) |-> Pending]
           /\ served' = [i \in 1..Len(us) |-> None]
           /\ pc' = IF us = <<>> THEN "resolved" ELSE "fetching"
    /\ completed' = <<>>
    /\ k' = 0
    /\ trace' = Append(trace, "resolve")
    /\ UNCHANGED <<subscription, request, result_lines, first_sub_info,
                   raw_content, subscription_info, convertLocals, result,
                   history>>

\* the fetch of the i-th URL completes, in any order among the pending ones
FetchComplete(i) ==
    /\ pc = "fetching"
    /\ i \in 1..Len(urls)
    /\ \A j \in 1..Len(completed) : completed[j] # i
    /\ \E resp \in Responses :
        /\ served' = [served EXCEPT ![i] = Some(resp)]
        /\ results' = StoreResult(results, i, fetch_with_info(resp),
                                  Len(completed))
    /\ completed' = Append(completed, i)
    /\ UNCHANGED <<pc, subscription, request, urls, direct_content, k,
                   result_lines, first_sub_info, raw_content,
                   subscription_info, convertLocals, result, history, trace>>

\* a faulty join: goes on to the results before every fetch has completed
JoinAllEarly ==
    /\ pc = "fetching"
    /\ pc' = "collect"
    /\ k' = 1
    /\ UNCHANGED <<subscription, request, urls, direct_content, completed,
                   results, served, result_lines, first_sub_info, raw_content,
                   subscription_info, convertLocals, result, history, trace>>

\* join_all resolves once every future has
JoinAll ==
    /\ pc = "fetching"
    /\ Len(completed) = Len(urls)
    /\ pc' = "collect"
    /\ k' = 1
    /\ UNCHANGED <<subscription, request, urls, direct_content, completed,
                   results, served, result_lines, first_sub_info, raw_content,
                   subscription_info, convertLocals, result, history, trace>>

\* one turn of the loop over the results
CollectResult ==
    /\ pc = "collect"
    /\ k <= Len(results)
    /\ first_sub_info' =
          IF results[k].ok
          THEN KeepFirstInfo(first_sub_info, results[k].subscription_info)
          ELSE first_sub_info
    /\ result_lines' = CollectLines(result_lines, results[k])
    /\ k' = k + 1
    /\ pc' = IF k = Len(results) THEN "resolved" ELSE "collect"
    /\ UNCHANGED <<subscription, request, urls, direct_content, completed,
                   results, served, raw_content, subscription_info,
                   convertLocals, result, history, trace>>

\* the inline items are appended and resolve_subscription returns; its locals
\* and the outputs of the futures are dropped, and convert does not read
\* request.subscription again
ResolveReturn ==
    /\ pc = "resolved"
    /\ raw_content' = result_lines \o direct_content
    /\ subscription_info' = first_sub_info
    /\ failed_urls' =
          Cardinality({i \in 1..Len(served) : ~fetch_with_info(served[i][1]).ok})
    /\ urls' = <<>>
    /\ direct_content' = <<>>
    /\ completed' = <<>>
    /\ results' = <<>>
    /\ served' = <<>>
    /\ k' = 0
    /\ result_lines' = <<>>
    /\ first_sub_info' = None
    /\ pc' = "parse"
    /\ subscription' = <<>>
    /\ UNCHANGED <<request, convertLocals, result, parsed_nodes, skipped, template,
                   trace>>

\* convert returns
Return(r) ==
    /\ result' = Some(r)
    /\ pc' = "done"

\* Step 1 of convert after resolve_subscription: parse_subscription_content
\* and the check for an empty list; raw_content is not read again
ParseContent ==
    /\ pc = "parse"
    /\ LET r == parse_subscription_content(raw_content)
       IN  /\ skipped' = r.warnings
           /\ parsed_nodes' = r.nodes
           /\ IF ~r.ok
              THEN /\ Return(ConvertErr("Internal", "No valid proxy nodes found", None))
                   /\ UNCHANGED <<nodes, initial_count>>
              ELSE IF is_empty(r.nodes)
              THEN /\ Return(ConvertErr("Internal", "No valid nodes found", None))
                   /\ UNCHANGED <<nodes, initial_count>>
              ELSE /\ nodes' = r.nodes
                   /\ initial_count' = Len(r.nodes)
                   /\ pc' = StageAfter("parse")
                   /\ UNCHANGED result
    /\ raw_content' = <<>>
    /\ trace' = Append(trace, "parse")
    /\ UNCHANGED <<subscription, request, resolveLocals, subscription_info,
                   filtered_count, warnings, ini_config, failed_urls, template>>

\* Step 2 of convert
Deduplicate ==
    /\ pc = "dedup"
    /\ nodes' = deduplicate_nodes(nodes)
    /\ warnings' = IF Len(nodes') < Len(nodes)
                   THEN Append(warnings, Warning("duplicates", Len(nodes) - Len(nodes')))
                   ELSE warnings
    /\ pc' = StageAfter("dedup")
    /\ trace' = Append(trace, "dedup")
    /\ UNCHANGED <<subscription, request, resolveLocals, raw_content,
                   subscription_info, initial_count, filtered_count, ini_config,
                   result, history>>

\* Step 3 of convert
FilterFrom(includes, excludes) ==
    /\ pc = "filter"
    /\ \E include \in includes, exclude \in excludes :
        /\ request' = [request EXCEPT !.include_regex = include,
                                      !.exclude_regex = exclude]
        /\ LET r == filter_nodes(nodes, include, exclude)
           IN  IF ~r.ok
               THEN /\ Return(ConvertErr("InvalidRegex", "", r.pattern))
                    /\ UNCHANGED nodes
               ELSE IF is_empty(r.nodes)
               THEN /\ Return(ConvertErr("Internal", "All nodes were filtered out", None))
                    /\ UNCHANGED nodes
               ELSE /\ nodes' = r.nodes
                    /\ pc' = StageAfter("filter")
                    /\ UNCHANGED result
    /\ trace' = Append(trace, "filter")
    /\ UNCHANGED <<subscription, resolveLocals, raw_content, subscription_info,
                   initial_count, filtered_count, warnings, ini_config, history>>

Filter == FilterFrom(OptPatterns, OptExcludes)

\* Step 4 of convert
RenameFrom(patterns, replacements) ==
    /\ pc = "rename"
    /\ \E pattern \in patterns, replacement \in replacements :
        /\ request' = [request EXCEPT !.rename_pattern = pattern,
                                      !.rename_replacement = replacement]
        /\ LET r == RenameStep(nodes, pattern, replacement)
           IN  IF ~r.ok
               THEN /\ Return(ConvertErr("InvalidRegex", "", r.pattern))
                    /\ UNCHANGED <<nodes, filtered_count>>
               ELSE /\ nodes' = r.nodes
                    /\ filtered_count' = Len(r.nodes)
                    /\ pc' = StageAfter("rename")
                    /\ UNCHANGED result
    /\ trace' = Append(trace, "rename")
    /\ UNCHANGED <<subscription, resolveLocals, raw_content, subscription_info,
                   initial_count, warnings, ini_config, history>>

Rename == RenameFrom(OptPatterns, OptReplacements)

\* Step 5 of convert up to the await of the template fetch, or to its end
\* when no fetch is issued
LoadIniFrom(requests) ==
    /\ pc = "ini"
    /\ \E ini \in requests :
        /\ request' = [request EXCEPT !.ini_url = ini[1], !.ini_content = ini[2]]
        /\ IF IsSome(ini[1]) /\ ini[1][1] # ""
           THEN /\ pc' = "ini_fetch"
                /\ UNCHANGED <<ini_config, warnings>>
           ELSE /\ ini_config' = LoadIniContent(ini[1], ini[2]).config
                /\ warnings' = warnings \o LoadIniContent(ini[1], ini[2]).warning
                /\ pc' = StageAfter("ini")
    /\ trace' = Append(trace, "ini")
    /\ UNCHANGED <<subscription, resolveLocals, raw_content, subscription_info,
                   nodes, initial_count, filtered_count, result, history>>

LoadIni == LoadIniFrom(IniRequests)

\* the fetch of the template completes
TemplateFetchComplete ==
    /\ pc = "ini_fetch"
    /\ \E resp \in TemplateResponses :
        /\ template' = Some(resp)
        /\ ini_config' = LoadIniFetched(resp).config
        /\ warnings' = warnings \o LoadIniFetched(resp).warning
    /\ pc' = StageAfter("ini")
    /\ UNCHANGED <<subscription, request, resolveLocals, raw_content,
                   subscription_info, nodes, initial_count, filtered_count,
                   result, failed_urls, parsed_nodes, skipped, trace>>

\* Steps 6 and 7 of convert, and its return
BuildYamlFrom(options) ==
    /\ pc = "build"
    /\ \E o \in options :
        /\ request' = [request EXCEPT !.options = o]
        /\ LET built == BuildConfig(nodes, ini_config, o[1], o[2], o[3], o[4])
               yaml == build_yaml(built.builder)
           IN  \E keys_parse \in DuplicateKeyOutcomes(yaml.doc) :
                IF yaml.ok /\ keys_parse
                THEN Return(ConvertOk(yaml.doc, initial_count, filtered_count,
                                      built.group_count, built.rule_count,
                                      warnings, subscription_info))
                ELSE Return(ConvertErr("YamlSerializeError", "", None))
    /\ trace' = Append(trace, "build")
    /\ UNCHANGED <<subscription, resolveLocals, raw_content, subscription_info,
                   convertLocals, history>>

BuildYaml == BuildYamlFrom(GlobalOptions)

Next ==
    \/ ResolveStart
    \/ \E i \in 1..MaxItems : FetchComplete(i)
    \/ JoinAll
    \/ CollectResult
    \/ ResolveReturn
    \/ ParseContent
    \/ Deduplicate
    \/ Filter
    \/ Rename
    \/ LoadIni
    \/ TemplateFetchComplete
    \/ BuildYaml

Spec == Init /\ [][Next]_vars

(***************************************************************************)
(* The convert call when every HTTP call completes or hits the timeout of  *)
(* the client: a fetch that is pending completes, and the code between two *)
(* awaits runs to the next await or to the return.                         *)
(***************************************************************************)
LiveItems == {Url1, LinkA}
LiveSubscriptions == SeqsUpTo(LiveItems, MaxItems)

InitLive == InitWith(LiveSubscriptions)

LiveIncludes == {None, Some(<<"(">>)}
LiveExcludes == {None}
LivePatterns == {None, Some(<<"a">>)}
LiveReplacements == {Some(<<"@">>)}
LiveRequests == {<<None, None>>, <<Some(TemplateUrl), None>>}
LiveOptions == {<<TRUE, FALSE, FALSE, FALSE>>}

NextLive ==
    \/ ResolveStart
    \/ \E i \in 1..MaxItems : FetchComplete(i)
    \/ JoinAll
    \/ CollectResult
    \/ ResolveReturn
    \/ ParseContent
    \/ Deduplicate
    \/ FilterFrom(LiveIncludes, LiveExcludes)
    \/ RenameFrom(LivePatterns, LiveReplacements)
    \/ LoadIniFrom(LiveRequests)
    \/ TemplateFetchComplete
    \/ BuildYamlFrom(LiveOptions)

SpecLive == InitLive /\ [][NextLive]_vars /\ WF_vars(NextLive)

(***************************************************************************)
(* The convert call on a mixture of sources: a subscription URL, a raw     *)
(* link given inline and a base64 text given inline.                       *)
(***************************************************************************)
MixedItems == {Url1, LinkA, EncBC}
MixedSubscriptions == SeqsUpTo(MixedItems, MaxItems)

InitMixed == InitWith(MixedSubscriptions)

SpecMixed == InitMixed /\ [][Next]_vars

(***************************************************************************)
(* The build of a VLESS node with optional fields.  The convert call has   *)
(* resolved and parsed a subscription of one vless:// link, no filter and  *)
(* no rename was asked for and no template given, and stands before Step 6 *)
(* with the node the link parsed to.                                       *)
(***************************************************************************)
\* the values of the optional fields of a VlessNode
VlessFlows == {None, Some(""), Some("xtls-rprx-vision")}
VlessTls == {None, Some(TRUE)}
VlessServernames == {None, Some("sni.example.com")}
VlessSkipCertVerify == {None, Some(FALSE), Some(TRUE)}
VlessRealityOpts ==
    {None, Some(RealityOpts("pbk1", None)), Some(RealityOpts("pbk1", Some(""))),
     Some(RealityOpts("pbk1", Some("ab12")))}
VlessFingerprints == {None, Some("chrome")}

\* the VlessNodes with every choice of the optional fields
VlessNodes ==
    {VlessWith(NodeA, flow, tls, servername, skip, reality, fingerprint) :
        flow \in VlessFlows, tls \in VlessTls, servername \in VlessServernames,
        skip \in VlessSkipCertVerify, reality \in VlessRealityOpts,
        fingerprint \in VlessFingerprints}

\* the query parameters of a vless:// link: get_param gives None for an
\* absent or empty one
VlessSecurity == {"none", "tls", "reality"}
VlessParamFlow == {None, Some("xtls-rprx-vision")}
VlessParamSni == {None, Some("sni.example.com")}
VlessParamFp == {None, Some("firefox")}
VlessParamPbk == {None, Some("pbk1")}
VlessParamSid == {None, Some(""), Some("ab12")}

\* the nodes a vless:// link can parse to
ParsedVlessNodes ==
    {parse_vless(flow, security, sni, allow_insecure, fp, pbk, sid) :
        flow \in VlessParamFlow, security \in VlessSecurity, sni \in VlessParamSni,
        allow_insecure \in VlessSkipCertVerify, fp \in VlessParamFp,
        pbk \in VlessParamPbk, sid \in VlessParamSid}

InitVless ==
    /\ pc = "build"
    /\ subscription = <<>>
    /\ request = [include_regex |-> None, exclude_regex |-> None,
                  rename_pattern |-> None, rename_replacement |-> None,
                  ini_url |-> None, ini_content |-> None, options |-> Unread]
    /\ urls = <<>>
    /\ direct_content = <<>>
    /\ completed = <<>>
    /\ results = <<>>
    /\ served = <<>>
    /\ k = 0
    /\ result_lines = <<>>
    /\ first_sub_info = None
    /\ raw_content = <<>>
    /\ subscription_info = None
    /\ \E n \in ParsedVlessNodes : nodes = <<n>> /\ parsed_nodes = <<n>>
    /\ initial_count = 1
    /\ filtered_count = 1
    /\ warnings = <<>>
    /\ ini_config = None
    /\ result = None
    /\ failed_urls = 0
    /\ skipped = <<>>
    /\ template = None
    /\ trace = <<"resolve", "parse", "dedup", "filter", "rename", "ini">>

NextVless == BuildYaml

SpecVless == InitVless /\ [][NextVless]_vars

(***************************************************************************)
(* The template step on one custom_proxy_group line.  The convert call has *)
(* resolved and parsed a subscription of the link of NodeA, no filter and  *)
(* no rename was asked for, and it stands before Step 5 with a template    *)
(* of one group line given as ini_content.                                 *)
(***************************************************************************)
\* the parts a group line is made of
LineParts ==
    {TextPart(<<"a">>), TextPart(<<>>), TextPart(<<"[]", "Auto">>),
     UrlPart("http://t/204"),
     CommaPart("60", <<Num(60)>>),
     CommaPart("60,5,7", <<Num(60), Num(5), Num(7)>>),
     CommaPart("60,,7", <<Num(60), Blank, Num(7)>>),
     CommaPart("60,x", <<Num(60), Word>>),
     CommaPart("x,5", <<Word, Num(5)>>),
     CommaPart("60,5,7,9", <<Num(60), Num(5), Num(7), Num(9)>>)}

LineTypes == {"select", "url-test", "fallback", "load-balance"}

\* the longest list of parts behind the type of a line
MaxParts == 3

\* custom_proxy_group=G`type`part`...
LineInis ==
    {IniText("line.ini", FALSE, TRUE, <<GroupLine(<<"G">>, type, parts)>>, <<>>) :
        type \in LineTypes, parts \in SeqsUpTo(LineParts, MaxParts)}

LineRequests == {<<None, Some(ini)>> : ini \in LineInis}

InitLines ==
    /\ pc = "ini"
    /\ subscription = <<>>
    /\ request = [include_regex |-> None, exclude_regex |-> None,
                  rename_pattern |-> None, rename_replacement |-> None,
                  ini_url |-> Unread, ini_content |-> Unread, options |-> Unread]
    /\ urls = <<>>
    /\ direct_content = <<>>
    /\ completed = <<>>
    /\ results = <<>>
    /\ served = <<>>
    /\ k = 0
    /\ result_lines = <<>>
    /\ first_sub_info = None
    /\ raw_content = <<>>
    /\ subscription_info = None
    /\ nodes = <<NodeA>>
    /\ parsed_nodes = <<NodeA>>
    /\ initial_count = 1
    /\ filtered_count = 1
    /\ warnings = <<>>
    /\ ini_config = None
    /\ result = None
    /\ failed_urls = 0
    /\ skipped = <<>>
    /\ template = None
    /\ trace = <<"resolve", "parse", "dedup", "filter", "rename">>

NextLines == LoadIniFrom(LineRequests) \/ BuildYaml

SpecLines == InitLines /\ [][NextLines]_vars

(***************************************************************************)
(* The parse step on links given in full.  resolve_subscription has        *)
(* returned a blob of one link, or of the link of NodeA and one more link, *)
(* and convert stands before parse_subscription_content.                   *)
(***************************************************************************)
\* the ciphers of the ss:// and ssr:// links
LinkCiphers ==
    {<<"aes", "-", "256", "-", "gcm">>, <<"AES", "_", "256", "_", "GCM">>,
     <<"aes", "_", "256", "_", "gcm">>, <<"Aes", "-", "256", "-", "cfb">>,
     <<"rc4", "-", "md5">>, <<"RC4", "_", "MD5">>, <<"rc4">>, <<"none">>,
     <<"chacha20", "-", "ietf", "-", "poly1305">>, <<"aes", "-", "256">>,
     <<"des">>, <<>>}

\* the ports a link spells, None when it spells none
LinkPorts == {None, Some(0), Some(443), Some(65535), Some(65536), Some(70000)}
LinkHosts == {"", "s1"}
LinkUsers == {"", "u9"}
LinkFragments == {None, Some(<<"n">>)}

\* the forms of the links of a scheme
FormsOf(scheme) ==
    CASE scheme = "ss" -> {"sip002", "legacy"}
      [] scheme = "ssr" -> {"ssr"}
      [] scheme = "vmess" -> {"json"}
      [] OTHER -> {"url"}

\* the query of a link with the two keys of WireGuard and nothing else
KeysQuery == Query(None, None, None, None, None, None, None, Some("k1"), Some("k2"))

\* links of every scheme with every endpoint, a cipher both whitelists have
\* and a base64 part that decodes
EndpointLinks ==
    UNION {{FullLink(scheme,
                     LinkParts(form, user, host, port, fragment,
                               <<"aes", "-", "256", "-", "cfb">>, TRUE, KeysQuery)) :
                form \in FormsOf(scheme), user \in LinkUsers, host \in LinkHosts,
                port \in LinkPorts, fragment \in LinkFragments} :
           scheme \in SupportedSchemes}

\* ss:// and ssr:// links with every cipher
CipherLinks ==
    UNION {{FullLink(scheme,
                     LinkParts(form, "pw", "s1", Some(8388), Some(<<"n">>), cipher,
                               decodes, NoQuery)) :
                form \in FormsOf(scheme), cipher \in LinkCiphers,
                decodes \in BOOLEAN} :
           scheme \in {"ss", "ssr"}}

\* vless:// links with every choice of the security parameters
VlessLinks ==
    {FullLink("vless",
              LinkParts("url", "u9", "s1", Some(443), Some(<<"n">>), <<>>, FALSE,
                        Query(security, None, None, allow_insecure, fp, pbk, sid,
                              None, None))) :
        security \in {None, Some(""), Some("none"), Some("tls"), Some("reality")},
        allow_insecure \in {None, Some("1")},
        fp \in {None, Some(""), Some("firefox")},
        pbk \in {None, Some(""), Some("pbk1")},
        sid \in {None, Some("ab12")}}

\* wireguard:// links without one of the keys
KeylessLinks ==
    {FullLink("wireguard",
              LinkParts("url", "", "s1", Some(51820), None, <<>>, FALSE,
                        Query(None, None, None, None, None, None, None, pk, peer_pk))) :
        pk \in {None, Some(""), Some("k1")}, peer_pk \in {None, Some("k2")}}

FullLinks == EndpointLinks \cup CipherLinks \cup VlessLinks \cup KeylessLinks

\* the blobs: the link alone, or behind the link of NodeA
LinkContents == {<<l>> : l \in FullLinks} \cup {<<LinkA, l>> : l \in FullLinks}

InitLinks ==
    /\ pc = "parse"
    /\ subscription = <<>>
    /\ request = [include_regex |-> Unread, exclude_regex |-> Unread,
                  rename_pattern |-> Unread, rename_replacement |-> Unread,
                  ini_url |-> Unread, ini_content |-> Unread,
                  options |-> Unread]
    /\ urls = <<>>
    /\ direct_content = <<>>
    /\ completed = <<>>
    /\ results = <<>>
    /\ served = <<>>
    /\ k = 0
    /\ result_lines = <<>>
    /\ first_sub_info = None
    /\ raw_content \in LinkContents
    /\ subscription_info = None
    /\ nodes = <<>>
    /\ initial_count = 0
    /\ filtered_count = 0
    /\ warnings = <<>>
    /\ ini_config = None
    /\ result = None
    /\ failed_urls = 0
    /\ parsed_nodes = <<>>
    /\ skipped = <<>>
    /\ template = None
    /\ trace = <<"resolve">>

NextLinks == ParseContent

SpecLinks == InitLinks /\ [][NextLinks]_vars

(***************************************************************************)
(* The convert call on sources that give two servers the same name: the    *)
(* name of a node is the fragment of its link, whatever its endpoint.      *)
(***************************************************************************)
\* a server of its own under the name of NodeA
NodeD == MkNode("trojan", <<"a">>, "s3", 443, "pw")
LinkD == MkLine("trojan://pw@s3:443#a", "trojan", TRUE, Some(NodeD), 20, None)

NameItems == {Url1, LinkA, LinkD}
NameSubscriptions == SeqsUpTo(NameItems, MaxItems)

InitNames == InitWith(NameSubscriptions)

SpecNames == InitNames /\ [][Next]_vars

(***************************************************************************)
(* Steps 5 to 7 of convert on templates whose rulesets share a file name.  *)
(***************************************************************************)
\* ruleset=Proxy,https://a.example/cn.list
\* ruleset=Proxy,https://b.example/cn.list
\* ruleset=Proxy,clash-domain:https://a.example/cn.yaml
\* ruleset=Proxy,clash-ipcidr:https://a.example/ip.list
\* ruleset=Proxy,https://a.example/
RulesetLines ==
    {RulesetLine("Proxy", "", "https://a.example/cn.list", "cn"),
     RulesetLine("Proxy", "", "https://b.example/cn.list", "cn"),
     RulesetLine("Proxy", "clash-domain:", "https://a.example/cn.yaml", "cn"),
     RulesetLine("Proxy", "clash-ipcidr:", "https://a.example/ip.list", "ip"),
     RulesetLine("Proxy", "", "https://a.example/", "")}

\* the longest list of rulesets of a template
MaxRulesets == 3

\* custom_proxy_group=Proxy`select`[]DIRECT
\* ruleset=...
\* ruleset=Proxy,[]FINAL
RulesetInis ==
    {IniText("sets.ini", FALSE, TRUE,
             <<GroupLine(<<"Proxy">>, "select", <<TextPart(<<"[]", "DIRECT">>)>>)>>
                \o sets \o <<InlineRulesetLine("Proxy", <<"FINAL">>)>>,
             <<>>) :
        sets \in SeqsUpTo(RulesetLines, MaxRulesets)}

RulesetRequests == {<<None, Some(ini)>> : ini \in RulesetInis}

NextRulesets == LoadIniFrom(RulesetRequests) \/ BuildYaml

SpecRulesets == InitLines /\ [][NextRulesets]_vars

(***************************************************************************)
(* Properties of convert                                                   *)
(***************************************************************************)
Done == result # None
Succeeded == result # None /\ result[1].ok

\* the node stages among the steps that ran
NodeStages(t) == SelectSeq(t, LAMBDA st : st \in {"dedup", "filter", "rename"})

IsPrefix(p, q) == Len(p) <= Len(q) /\ \A i \in 1..Len(p) : p[i] = q[i]

\* the text of the value the emitted proxy holds under a key
EmittedField(proxy, key) ==
    proxy[CHOOSE i \in 1..Len(proxy) : proxy[i][1] = key][2].text

\* C1: in convert the stages dedup, filter and rename run once each, in this
\* order, and the proxies emitted under "proxies:" are exactly
\* rename(filter(dedup(parsed nodes))), in that order: nothing is added,
\* dropped or reordered between rename and emission.
C1_StagesOnceInOrder ==
    /\ IsPrefix(NodeStages(trace), <<"dedup", "filter", "rename">>)
    /\ Succeeded =>
        LET deduped == deduplicate_nodes(parsed_nodes)
            filtered == filter_nodes(deduped, request.include_regex,
                                     request.exclude_regex).nodes
            renamed == RenameStep(filtered, request.rename_pattern,
                                  request.rename_replacement).nodes
            emitted == result[1].yaml[1].proxies
        IN  /\ NodeStages(trace) = <<"dedup", "filter", "rename">>
            /\ Len(emitted) = Len(renamed)
            /\ \A i \in 1..Len(renamed) :
                /\ EmittedField(emitted[i], "name") = renamed[i].name
                /\ EmittedField(emitted[i], "type") = <<renamed[i].type>>
                /\ EmittedField(emitted[i], "server") = <<renamed[i].server>>

\* a conversion in which dedup dropped NodeB, the filter dropped NodeC and the
\* rename changed the name of NodeA
C1_Witness ==
    /\ Succeeded
    /\ parsed_nodes = <<NodeA, NodeB, NodeC>>
    /\ request.include_regex = Some(<<"a">>)
    /\ request.exclude_regex = Some(<<"b">>)
    /\ request.rename_pattern = Some(<<"a">>)
    /\ request.rename_replacement = Some(<<"@">>)
    /\ Len(result[1].yaml[1].proxies) = 1
    /\ EmittedField(result[1].yaml[1].proxies[1], "name") = <<"@">>

\* the positions of the nodes of L that are the first with their dedup_key
FirstOfKey(L) ==
    {i \in 1..Len(L) : \A j \in 1..(i - 1) : dedup_key(L[j]) # dedup_key(L[i])}

\* the n-th smallest element of a set of numbers
NthOf(S, n) == CHOOSE i \in S : Cardinality({j \in S : j <= i}) = n

\* C2: deduplicate_nodes(L) is the subsequence of L that keeps, for each
\* dedup_key occurring in L, exactly the first node with that key, in the
\* order of L; and deduplicate_nodes is idempotent.
C2_DedupKeepsFirst ==
    [][pc = "dedup" =>
        /\ Len(nodes') = Cardinality(FirstOfKey(nodes))
        /\ \A n \in 1..Len(nodes') : nodes'[n] = nodes[NthOf(FirstOfKey(nodes), n)]
        /\ deduplicate_nodes(nodes') = nodes']_vars

\* dedup dropped NodeB, which has the key of NodeA and comes after it
C2_Witness ==
    /\ pc = "filter"
    /\ parsed_nodes = <<NodeA, NodeB, NodeC>>
    /\ nodes = <<NodeA, NodeC>>

\* an optional pattern of the request is absent, empty, or compiles
ValidOrAbsent(pattern) ==
    pattern = None \/ \A i \in 1..Len(pattern[1]) : pattern[1][i] # "("

\* the condition of C3 on a node, for the optional patterns I and E
Wanted(n, I, E) ==
    /\ (I = None \/ I[1] = <<>> \/ IsMatch(I[1], name(n)))
    /\ (E = None \/ E[1] = <<>> \/ ~IsMatch(E[1], name(n)))

\* C3: for valid optional regexes I and E, filter_nodes returns, in the
\* original order, exactly the nodes n with (I absent or empty or I matches
\* the name of n) and (E absent or empty or E does not match the name of n).
C3_FilterKeepsExactly ==
    [][(/\ pc = "filter"
        /\ ValidOrAbsent(request'.include_regex)
        /\ ValidOrAbsent(request'.exclude_regex)) =>
        LET kept == SelectSeq(nodes, LAMBDA n : Wanted(n, request'.include_regex,
                                                       request'.exclude_regex))
        IN  /\ filter_nodes(nodes, request'.include_regex,
                            request'.exclude_regex).nodes = kept
            /\ IF kept = <<>> THEN Done' /\ ~result'[1].ok
               ELSE nodes' = kept /\ pc' = "rename"]_vars

\* the include pattern kept NodeA and NodeC, the exclude pattern dropped NodeC
C3_Witness ==
    /\ pc = "rename"
    /\ request.include_regex = Some(<<"a">>)
    /\ request.exclude_regex = Some(<<"b">>)
    /\ parsed_nodes = <<NodeA, NodeB, NodeC>>
    /\ nodes = <<NodeA>>

(***************************************************************************)
(* Properties of resolve_subscription.  They are stated on what the        *)
(* network served to each URL, by position in the input, whatever the      *)
(* order in which the fetches completed.                                   *)
(***************************************************************************)
\* the GET of the i-th URL was answered with a 2xx status
ServedOk(i) ==
    /\ IsSome(served[i])
    /\ served[i][1].transport = "ok"
    /\ served[i][1].status \in 200..299

\* the lines of the body served to the i-th URL, none for a failed fetch
ServedLines(i) ==
    IF ServedOk(i)
    THEN NonEmptyLines(decode_subscription_body(served[i][1].body))
    ELSE <<>>

\* the inline items of the input, in input order
InlineItems ==
    SelectSeq(subscription, LAMBDA it : ~IsEmptyLine(it) /\ ~IsUrl(it))

\* the URL items of the input, in input order
UrlItems == SelectSeq(subscription, LAMBDA it : ~IsEmptyLine(it) /\ IsUrl(it))

\* C4: for every order in which the concurrent fetches complete the resolved
\* blob is the same: the lines of the successfully fetched bodies in the
\* order of the URLs in the input, followed by the inline items in input
\* order.
C4_BlobInUrlOrder ==
    [][pc = "resolved" =>
        /\ Len(served) = Len(UrlItems)
        /\ raw_content' = Flatten([i \in 1..Len(served) |-> ServedLines(i)])
                            \o InlineItems]_vars

\* the second URL completed first, the bodies differ, and the lines of the
\* first URL come first
C4_Witness ==
    /\ pc = "resolved"
    /\ completed = <<2, 1>>
    /\ ServedOk(1) /\ served[1][1].body = <<LinkA, BlankLine, BadVmess>>
    /\ ServedOk(2) /\ served[2][1].body = <<EncBC>>
    /\ result_lines = <<LinkA, BadVmess, LinkB, LinkC>>

\* the elements of a sequence
Range(q) == {q[i] : i \in 1..Len(q)}

\* C5: fetching is not fail-fast: when some URLs fail (timeout, transport
\* error, non-2xx status) every other URL is still fetched to completion, its
\* body and all inline items are in the resolved blob, and
\* resolve_subscription returns without an error.
C5_NotFailFast ==
    [][(pc = "resolved" /\ \E i \in 1..Len(served) : ~ServedOk(i)) =>
        /\ \A i \in 1..Len(UrlItems) : i <= Len(served) /\ IsSome(served[i])
        /\ \A i \in 1..Len(served) : Range(ServedLines(i)) \subseteq Range(raw_content')
        /\ Range(InlineItems) \subseteq Range(raw_content')
        /\ pc' = "parse"
        /\ result' = None]_vars

\* one of two URLs failed and the body of the other one is in the blob
C5_Witness ==
    /\ pc = "parse"
    /\ failed_urls = 1
    /\ raw_content = <<LinkB, LinkC>>

\* the response to the i-th URL bears a subscription-userinfo header
BearsHeader(i) == ServedOk(i) /\ IsSome(served[i][1].header)

\* the info of the first response, in URL order, that bears the header
FirstHeaderInfo ==
    LET bearing == {i \in 1..Len(served) : BearsHeader(i)}
    IN  IF bearing = {} THEN None
        ELSE Some(SubscriptionInfoParse(
                    served[CHOOSE i \in bearing : \A j \in bearing : i <= j][1].header[1]))

\* C6: the subscription info of a request is that of the first response
\* bearing a subscription-userinfo header: once set it is never replaced, a
\* response without the header does not keep a later one from supplying it,
\* and the choice does not depend on the completion order.
C6_FirstInfoWins ==
    [][/\ (pc = "collect" /\ first_sub_info # None) => first_sub_info' = first_sub_info
       /\ pc = "resolved" => subscription_info' = FirstHeaderInfo]_vars

\* both responses bear a header, the second URL completed first, and the info
\* of the first URL is kept
C6_Witness ==
    /\ pc = "resolved"
    /\ completed = <<2, 1>>
    /\ BearsHeader(1) /\ BearsHeader(2)
    /\ served[1][1].header # served[2][1].header
    /\ first_sub_info = Some(SubscriptionInfoParse(served[1][1].header[1]))

(***************************************************************************)
(* Properties of parse_subscription_content                                *)
(***************************************************************************)
\* a line that parses to a node
WellFormed(l) == l.scheme \in SupportedSchemes /\ l.wellformed

\* a line with an unknown scheme or a protocol-specific parse error
FailedLine(l) == ~IsEmptyLine(l) /\ l.scheme # "#" /\ ~WellFormed(l)

SkipWarnings(ws) ==
    SelectSeq(ws, LAMBDA w : w.kind \in {"skipped_url", "unparseable_line"})

\* C8: every successful ConvertResult enumerates in its warnings each failed
\* subscription URL and each unparseable input line: for an input with k
\* unparseable lines and m failed URLs and at least one valid node, warnings
\* has k + m corresponding entries.
C8_WarningsEnumerateSkips ==
    Succeeded =>
        Len(SkipWarnings(result[1].warnings)) = Len(skipped) + failed_urls

\* the template of the request could not be fetched or could not be parsed
TemplateFailed ==
    \/ /\ IsSome(template)
       /\ \/ template[1].transport # "ok"
          \/ ~(template[1].status \in 200..299)
          \/ ~template[1].body.wellformed
    \/ /\ request.ini_url = None
       /\ IsSome(request.ini_content)
       /\ ~request.ini_content[1].empty
       /\ ~request.ini_content[1].wellformed

\* the warnings about the template
TemplateWarnings(ws) ==
    SelectSeq(ws, LAMBDA w : w.kind \in {"ini_fetch", "ini_parse",
                                        "ini_content_parse"})

\* C9: a template that cannot be fetched (error or timeout) or cannot be
\* parsed never fails convert: exactly one warning is appended, the default
\* set of 5 groups and 7 rules is substituted, and the YAML is still produced
\* from the filtered and renamed nodes.
C9_TemplateFailureNeverFails ==
    (Done /\ TemplateFailed) =>
        /\ result[1].ok
        /\ Len(TemplateWarnings(result[1].warnings)) = 1
        /\ result[1].group_count = 5
        /\ result[1].rule_count = 7
        /\ Len(result[1].yaml[1].proxies) = Len(nodes)

\* an optional pattern of the request that was read, is not empty and does
\* not compile
Uncompilable(pattern) ==
    /\ IsSome(pattern)
    /\ pattern[1] # <<>>
    /\ \E i \in 1..Len(pattern[1]) : pattern[1][i] = "("

\* convert failed with InvalidRegex carrying the pattern, without any YAML,
\* and the step named last is the last one that ran
RegexFailure(pattern, last) ==
    /\ ~result[1].ok
    /\ result[1].error = "InvalidRegex"
    /\ result[1].pattern = pattern
    /\ result[1].yaml = None
    /\ trace[Len(trace)] = last
    /\ \A i \in 1..Len(trace) : ~(trace[i] \in {"ini", "build"})

\* C10 as stated: if the include regex, the exclude regex or a non-empty
\* rename pattern does not compile, convert returns an InvalidRegex error
\* carrying the offending pattern and produces no YAML, and neither the
\* template load nor the YAML build runs.
C10_AnyBadPatternFails ==
    Done =>
        /\ Uncompilable(request.include_regex)
              => RegexFailure(request.include_regex, "filter")
        /\ (~Uncompilable(request.include_regex)
              /\ Uncompilable(request.exclude_regex))
              => RegexFailure(request.exclude_regex, "filter")
        /\ Uncompilable(request.rename_pattern)
              => RegexFailure(request.rename_pattern, "rename")

\* C10, amended: when the filter step is reached and the include or the
\* exclude regex is non-empty and does not compile, or when the rename step is
\* reached with a replacement and a non-empty rename pattern that does not
\* compile, convert returns an InvalidRegex error carrying the offending
\* pattern (the include regex when both filter patterns are bad) and produces
\* no YAML, and neither the template load nor the YAML build runs.  A rename
\* pattern given without a replacement is not compiled.
C10_BadPatternFailsAtItsStep ==
    Done =>
        /\ Uncompilable(request.include_regex)
              => RegexFailure(request.include_regex, "filter")
        /\ (~Uncompilable(request.include_regex)
              /\ Uncompilable(request.exclude_regex))
              => RegexFailure(request.exclude_regex, "filter")
        /\ (Uncompilable(request.rename_pattern)
              /\ IsSome(request.rename_replacement))
              => RegexFailure(request.rename_pattern, "rename")
        /\ (Uncompilable(request.rename_pattern)
              /\ request.rename_replacement = None)
              => (result[1].error # "InvalidRegex" /\ "build" \in Range(trace))

\* the exclude regex did not compile and convert stopped at the filter
C10_Witness ==
    /\ Done
    /\ request.include_regex = Some(<<"a">>)
    /\ request.exclude_regex = Some(<<"(">>)
    /\ RegexFailure(Some(<<"(">>), "filter")

\* the template in use has a group with a Pattern matcher that is not a
\* valid regex
HasBadMatcher(config) ==
    \E g \in 1..Len(config.proxy_groups) :
        \E m \in 1..Len(config.proxy_groups[g].proxies) :
            /\ config.proxy_groups[g].proxies[m].kind = "Pattern"
            /\ ~RegexCompiles(config.proxy_groups[g].proxies[m].value)

\* C11: a regex compilation error in a template Pattern matcher is fatal to
\* the request: when a group of the template in use contains a Pattern
\* matcher that is not a valid regex, convert returns an error and no YAML
\* document.
C11_BadMatcherFails ==
    (Done /\ "build" \in Range(trace) /\ IsSome(ini_config)
          /\ HasBadMatcher(ini_config[1]))
        => (~result[1].ok /\ result[1].yaml = None)

\* the emitted proxy holds the key with the value true
EmitsTrue(proxy, key) ==
    \E i \in 1..Len(proxy) : proxy[i][1] = key /\ proxy[i][2].text = <<"true">>

\* C12: the three global switches of the request take effect on every node:
\* with enable_tfo every emitted proxy contains tfo: true, with
\* skip_cert_verify every emitted proxy contains skip-cert-verify: true, and
\* with enable_udp every emitted proxy contains udp: true, in whatever order
\* the builder receives the nodes and the options.
C12_SwitchesOnEveryProxy ==
    Succeeded =>
        \A i \in 1..Len(result[1].yaml[1].proxies) :
            LET proxy == result[1].yaml[1].proxies[i]
            IN  /\ request.options[1] => EmitsTrue(proxy, "udp")
                /\ request.options[2] => EmitsTrue(proxy, "tfo")
                /\ request.options[3] => EmitsTrue(proxy, "skip-cert-verify")

\* the document build_yaml emits for the request, before its validation
EmittedDocument ==
    EmitDocument(BuildConfig(nodes, ini_config, request.options[1],
                             request.options[2], request.options[3],
                             request.options[4]).builder)

\* C13: build_yaml returns a document only after the emitted text has parsed
\* as YAML: when the parse succeeds convert returns that document, when it
\* fails convert fails with a YAML-serialize error and no YAML string reaches
\* the caller; hence every document convert returns parses as YAML.
C13_RoundTripValidity ==
    /\ (Done /\ "build" \in Range(trace)) =>
          IF YamlParses(EmittedDocument)
          THEN result[1].ok /\ result[1].yaml = Some(EmittedDocument)
          ELSE /\ ~result[1].ok
               /\ result[1].error = "YamlSerializeError"
               /\ result[1].yaml = None
    /\ Succeeded => YamlParses(result[1].yaml[1])

\* the emitted text names a group member "@" without quotes, the parse fails
\* and convert returns the YAML-serialize error
C13_Witness ==
    /\ Done
    /\ "build" \in Range(trace)
    /\ ~YamlParses(EmittedDocument)
    /\ \E g \in 1..Len(EmittedDocument.proxy_groups) :
          \E j \in 1..Len(EmittedDocument.proxy_groups[g].proxies) :
              EmittedDocument.proxy_groups[g].proxies[j] = Scalar(<<"@">>, FALSE)
    /\ result[1].error = "YamlSerializeError"

\* convert failed with an Internal error and without any YAML
InternalFailure ==
    ~result[1].ok /\ result[1].error = "Internal" /\ result[1].yaml = None

\* C14: convert fails as a whole whenever no source yields a parseable node
\* (empty input, every fetch failing with no inline item, only unparseable
\* lines) and also when the filter removes every node; a successful result
\* has at least one proxy, and filtered_count <= node_count.
C14_NoNodesFails ==
    /\ (Done /\ parsed_nodes = <<>>) =>
          /\ InternalFailure
          /\ trace[Len(trace)] = "parse"
    /\ (Done /\ "filter" \in Range(trace)
             /\ ValidOrAbsent(request.include_regex)
             /\ ValidOrAbsent(request.exclude_regex)
             /\ \A i \in 1..Len(parsed_nodes) :
                    ~Wanted(parsed_nodes[i], request.include_regex,
                            request.exclude_regex)) =>
          /\ InternalFailure
          /\ trace[Len(trace)] = "filter"
    /\ Succeeded =>
          /\ result[1].filtered_count >= 1
          /\ result[1].filtered_count <= result[1].node_count
          /\ Len(result[1].yaml[1].proxies) = result[1].filtered_count

\* the only source is a URL whose fetch failed: no line was collected, nothing
\* was parsed and convert failed
C14_Witness ==
    /\ Done
    /\ failed_urls = 1
    /\ skipped = <<>>
    /\ parsed_nodes = <<>>
    /\ InternalFailure
    /\ result[1].message = "No valid nodes found"

\* the template text whose config the build uses
TemplateInUse ==
    IF IsSome(template) THEN template[1].body ELSE request.ini_content[1]

\* the remote ruleset lines of a template text, in the order of the text
RemoteRulesets(text) ==
    SelectSeq(text.custom, LAMBDA l : l.key = "ruleset" /\ l.prefix # "[]")

\* the behavior C15 gives for a prefix
BehaviorOfPrefix(prefix) ==
    CASE prefix = "clash-domain:" -> "domain"
      [] prefix = "clash-ipcidr:" -> "ipcidr"
      [] prefix = "clash-classic:" -> "classical"
      [] prefix = "" -> "classical"

\* C15: for a template with the remote rulesets r_1..r_k the build produces
\* exactly one rule-providers entry and exactly one rule
\* RULE-SET,<provider>,<target> per ruleset, in ruleset order, all before
\* every inline rule; the rule ends in ,no-resolve if and only if the
\* behavior of the ruleset is ipcidr, and the behavior is domain, ipcidr or
\* classical for the prefixes clash-domain:, clash-ipcidr: and
\* clash-classic:, and classical without a prefix.
C15_RulesetsBecomeProviders ==
    (Succeeded /\ IsSome(ini_config)) =>
        LET r == RemoteRulesets(TemplateInUse)
            doc == result[1].yaml[1]
        IN  /\ Len(doc.rule_providers) = Len(r)
            /\ Len(doc.rules) = Len(r) + Len(ini_config[1].rules)
            /\ \A i \in 1..Len(r) :
                /\ doc.rule_providers[i].url = r[i].url
                /\ doc.rule_providers[i].target = r[i].target
                /\ doc.rule_providers[i].behavior = BehaviorOfPrefix(r[i].prefix)
                /\ doc.rules[i] =
                      "RULE-SET," \o doc.rule_providers[i].name \o "," \o r[i].target
                        \o (IF BehaviorOfPrefix(r[i].prefix) = "ipcidr"
                            THEN ",no-resolve" ELSE "")
            /\ SubSeq(doc.rules, Len(r) + 1, Len(doc.rules))
                  = to_clash_rules(ini_config[1].rules)

\* a conversion with a template of four remote rulesets, one of each prefix
\* and one without, and two inline rules
C15_Witness ==
    /\ Succeeded
    /\ IsSome(ini_config)
    /\ TemplateInUse = RichIni
    /\ result[1].yaml[1].rules =
          <<"RULE-SET,dom,Mix", "RULE-SET,cls,Auto", "RULE-SET,ip,Mix,no-resolve",
            "RULE-SET,plain,Mix", "GEOIP,CN,Mix", "MATCH,Mix">>

RECURSIVE RulesInLineOrder(_, _, _)
\* the rules the lines of a template define, in the order of the lines: each
\* remote ruleset line defines the next of remote_rules, each "[]" ruleset
\* line the next of inline_rules, and the rules of the [Rule] section, which
\* is read after [custom], are what is left of inline_rules
RulesInLineOrder(lines, remote_rules, inline_rules) ==
    IF lines = <<>> THEN inline_rules
    ELSE IF Head(lines).key # "ruleset"
    THEN RulesInLineOrder(Tail(lines), remote_rules, inline_rules)
    ELSE IF Head(lines).prefix = "[]"
    THEN <<Head(inline_rules)>>
            \o RulesInLineOrder(Tail(lines), remote_rules, Tail(inline_rules))
    ELSE <<Head(remote_rules)>>
            \o RulesInLineOrder(Tail(lines), Tail(remote_rules), inline_rules)

\* the custom_proxy_group lines of a template text, in the order of the text
GroupLines(text) == SelectSeq(text.custom, LAMBDA l : l.key = "custom_proxy_group")

KeyBefore(map, a, b) ==
    \A i, j \in 1..Len(map) : (map[i][1] = a /\ map[j][1] = b) => i < j

\* the emitted map has the key
HasKey(map, key) == \E i \in 1..Len(map) : map[i][1] = key

\* the emitted value under a key of the map
ValueOf(map, key) == map[CHOOSE i \in 1..Len(map) : map[i][1] = key][2]

\* the order C17 asks of the keys of an emitted VLESS block
VlessKeysInOrder(proxy) ==
    /\ HasKey(proxy, "tls")
    /\ KeyBefore(proxy, "tls", "flow")
    /\ KeyBefore(proxy, "flow", "servername")
    /\ KeyBefore(proxy, "tls", "servername")
    /\ KeyBefore(proxy, "reality-opts", "client-fingerprint")
    /\ HasKey(proxy, "reality-opts") =>
          /\ HasKey(ValueOf(proxy, "reality-opts"), "public-key")
          /\ KeyBefore(ValueOf(proxy, "reality-opts"), "public-key", "short-id")

\* C17: in every emitted VLESS proxy block, whatever optional fields are
\* present and whatever global options are applied, tls appears before flow,
\* flow before servername and reality-opts before client-fingerprint, and
\* inside reality-opts public-key precedes short-id.  The first conjunct is
\* about the blocks convert returns, the second about the block the build
\* makes of a VLESS node with any choice of its optional fields under every
\* setting of the three switches of the builder.
C17_VlessKeyOrder ==
    /\ Succeeded =>
          \A i \in 1..Len(result[1].yaml[1].proxies) :
              EmittedField(result[1].yaml[1].proxies[i], "type") = <<"vless">>
                  => VlessKeysInOrder(result[1].yaml[1].proxies[i])
    /\ pc = "build" => \A n \in VlessNodes : \A udp, tfo, skip \in BOOLEAN :
          VlessKeysInOrder(
              format_proxy_yaml(
                  ProxyOf(with_global_options(ClashConfigBuilderNew, udp, tfo, skip),
                          n)))

\* a VLESS node with every optional field was emitted under the second set
\* of global options
C17_Witness ==
    /\ Succeeded
    /\ request.options = <<FALSE, TRUE, TRUE, TRUE>>
    /\ Len(result[1].yaml[1].proxies) = 1
    /\ \A key \in {"tls", "flow", "servername", "skip-cert-verify",
                   "reality-opts", "client-fingerprint"} :
            HasKey(result[1].yaml[1].proxies[1], key)
    /\ HasKey(ValueOf(result[1].yaml[1].proxies[1], "reality-opts"), "short-id")

\* the order C18 gives for the keys of a group
GroupKeyOrder == <<"name", "type", "url", "interval", "timeout", "tolerance", "proxies">>

\* the place of a key in that order
GroupKeyRank(key) == CHOOSE r \in 1..Len(GroupKeyOrder) : GroupKeyOrder[r] = key

\* C18: in every emitted proxy group the keys appear in the order name,
\* type, [url, interval, timeout, tolerance], proxies, whatever the order in
\* which the keys were inserted into the group map; and every url-test,
\* fallback or load-balance group built from a template carries url and
\* interval, with the defaults http://www.gstatic.com/generate_204 and 300
\* where the template gives none.
C18_GroupKeyOrder ==
    Succeeded =>
        \A g \in 1..Len(result[1].yaml[1].proxy_groups) :
            LET group == result[1].yaml[1].proxy_groups[g]
            IN  /\ group.keys[1] = "name"
                /\ group.keys[2] = "type"
                /\ group.keys[Len(group.keys)] = "proxies"
                /\ \A i, j \in 1..Len(group.keys) :
                      i < j => GroupKeyRank(group.keys[i]) < GroupKeyRank(group.keys[j])
                /\ \A key \in {"url", "interval", "timeout", "tolerance"} :
                      (key \in Range(group.keys)) <=> IsSome(group[key])
                /\ (IsSome(ini_config)
                      /\ group.type \in {"url-test", "fallback", "load-balance"}) =>
                      LET parsed == ini_config[1].proxy_groups[g]
                      IN  /\ group.url =
                                IF IsSome(parsed.url) THEN parsed.url
                                ELSE Some("http://www.gstatic.com/generate_204")
                          /\ group.interval =
                                IF IsSome(parsed.interval) THEN parsed.interval
                                ELSE Some(300)

\* a conversion with the template whose fallback group gives url, interval
\* and timeout: the three keys stand before proxies, which was inserted
\* before them
C18_Witness ==
    /\ Succeeded
    /\ IsSome(ini_config)
    /\ TemplateInUse = RichIni
    /\ result[1].yaml[1].proxy_groups[2].keys =
          <<"name", "type", "url", "interval", "timeout", "proxies">>
    /\ result[1].yaml[1].proxy_groups[2].url = Some("http://t/204")
    /\ result[1].yaml[1].proxy_groups[2].interval = Some(60)

RECURSIVE NodesOfLines(_)
\* the nodes the links of a text parse to
NodesOfLines(lines) ==
    IF lines = <<>> THEN <<>>
    ELSE (IF parse_single_link(Head(lines)).ok
          THEN parse_single_link(Head(lines)).node ELSE <<>>)
         \o NodesOfLines(Tail(lines))

\* C19: each source of a request, fetched body or inline item, is
\* base64-detected and decoded on its own: the nodes of a base64 source are
\* parsed also when another source of the request has raw URI lines.  The
\* base64 lines of the resolved blob are the inline base64 sources (a fetched
\* base64 body is decoded when it is collected); the claim asks that the
\* parse of the blob yields the nodes of each of them.
C19_EachSourceDecoded ==
    pc = "parse" =>
        \A i \in 1..Len(raw_content) :
            IsSome(raw_content[i].enc) =>
                \A n \in Range(NodesOfLines(raw_content[i].enc[1])) :
                    n \in Range(parse_subscription_content(raw_content).nodes)

\* the names the emitted group lists, in order
ListedNames(group) == [j \in 1..Len(group.proxies) |-> group.proxies[j].text]

\* the node names the Pattern matchers of a parsed group match
PatternNames(parsed) ==
    {name(nodes[i]) : i \in {i \in 1..Len(nodes) :
        \E m \in 1..Len(parsed.proxies) :
            /\ parsed.proxies[m].kind = "Pattern"
            /\ RegexCompiles(parsed.proxies[m].value)
            /\ IsMatch(parsed.proxies[m].value, name(nodes[i]))}}

\* the names the other matchers of a parsed group give
SingleNames(parsed) ==
    {parsed.proxies[m].value : m \in {m \in 1..Len(parsed.proxies) :
        parsed.proxies[m].kind \in {"GroupRef", "Special", "Literal"}}}

\* C20: resolve_proxy_group expands the matchers of a group: a GroupRef
\* contributes exactly the referenced group name (never node names), a
\* Special contributes DIRECT or REJECT, a Literal contributes its name, and
\* a Pattern contributes every node name the regex matches, each appended
\* only if it is not yet in the list of the group, so that no name
\* contributed by a Pattern appears twice in the group.
C20_MatchersExpanded ==
    (Succeeded /\ IsSome(ini_config)) =>
        \A g \in 1..Len(ini_config[1].proxy_groups) :
            LET parsed == ini_config[1].proxy_groups[g]
                listed == ListedNames(result[1].yaml[1].proxy_groups[g])
            IN  /\ Range(listed) = SingleNames(parsed) \cup PatternNames(parsed)
                /\ \A m \in 1..Len(parsed.proxies) :
                      parsed.proxies[m].kind = "Special"
                          => parsed.proxies[m].value \in {<<"DIRECT">>, <<"REJECT">>}
                /\ \A x \in PatternNames(parsed) :
                      Cardinality({j \in 1..Len(listed) : listed[j] = x}) = 1

(***************************************************************************)
(* The parts of a group line that are consumed                             *)
(***************************************************************************)
\* the part has the form <int>[,<int>?][,<int>?]
HasIntervalForm(part) ==
    /\ part.text # <<>>
    /\ Len(part.fields) <= 3
    /\ part.fields[1].kind = "num"
    /\ \A i \in 2..Len(part.fields) : part.fields[i].kind \in {"num", "empty"}

\* the number in the i-th field of the part, if there is one
FieldNumber(part, i) ==
    IF i <= Len(part.fields) /\ part.fields[i].kind = "num"
    THEN Some(part.fields[i].value) ELSE None

\* the group the line stands for
ExpectedGroup(line) ==
    LET parts == line.parts
        n == Len(parts)
        tested == line.group_type \in {"url-test", "fallback", "load-balance"}
        takes_interval == tested /\ n >= 1 /\ HasIntervalForm(parts[n])
        m == IF takes_interval THEN n - 1 ELSE n
        takes_url == tested /\ m >= 1 /\ parts[m].is_url
        e == IF takes_url THEN m - 1 ELSE m
        rest == SelectSeq(SubSeq(parts, 1, e), LAMBDA part : part.text # <<>>)
    IN  [name |-> line.name, group_type |-> line.group_type,
         proxies |-> [i \in 1..Len(rest) |-> parse_proxy_matcher(rest[i].text)],
         url |-> IF takes_url THEN Some(parts[m].text[1]) ELSE None,
         interval |-> IF takes_interval THEN FieldNumber(parts[n], 1) ELSE None,
         timeout |-> IF takes_interval THEN FieldNumber(parts[n], 2) ELSE None,
         tolerance |-> IF takes_interval THEN FieldNumber(parts[n], 3) ELSE None]

\* C21: for a line of type url-test, fallback or load-balance the last item
\* is taken as the interval tuple exactly when it has the form
\* <int>[,<int>?][,<int>?], then the new last item is taken as the test URL
\* exactly when it starts with http:// or https://, and every other
\* non-empty item becomes a matcher, in order; for any other type every
\* item becomes a matcher and url, interval, timeout, tolerance stay unset.
C21_GroupLineParts ==
    IsSome(ini_config) =>
        LET lines == GroupLines(TemplateInUse)
        IN  /\ Len(ini_config[1].proxy_groups) = Len(lines)
            /\ \A i \in 1..Len(lines) :
                    ini_config[1].proxy_groups[i] = ExpectedGroup(lines[i])

(***************************************************************************)
(* The links the parsers accept                                            *)
(***************************************************************************)
\* the lines of the blob that are given in full
FullAt(content) == {i \in 1..Len(content) : content[i].parts.form # "none"}

\* the number of nodes the lines of the blob other than line i give
NodesBeside(content, i) ==
    Cardinality({j \in 1..Len(content) : j # i /\ WellFormed(content[j])})

\* line i of the blob, its only line given in full, gave a node
Produced(content, i, parsed) == Len(parsed) = NodesBeside(content, i) + 1

\* the node line i gave
NodeFrom(content, i, parsed) ==
    parsed[Cardinality({j \in 1..(i - 1) : WellFormed(content[j])}) + 1]

\* the list of line warnings has the error for line i
Rejected(content, i, warns, err) ==
    \E j \in 1..Len(warns) : warns[j].line = content[i].id /\ warns[j].error = err

\* the whitelist of the scheme
Whitelist(scheme) == IF scheme = "ss" THEN SS_VALID_CIPHERS ELSE SSR_VALID_CIPHERS

\* C22: an ss:// or ssr:// link gives a node only if its cipher, lowercased
\* and with "_" replaced by "-", is in the whitelist of its protocol;
\* otherwise the line gives an InvalidNodeFormat error and no node, in the
\* SIP002 and in the legacy form.
C22_CipherWhitelist ==
    [][pc = "parse" =>
        \A i \in FullAt(raw_content) :
            LET l == raw_content[i]
                listed == normalize_cipher(l.parts.cipher) \in Whitelist(l.scheme)
            IN  (Cardinality(FullAt(raw_content)) = 1 /\ l.scheme \in {"ss", "ssr"}) =>
                  /\ Produced(raw_content, i, parsed_nodes') => listed
                  /\ (l.parts.decodes /\ ~listed) =>
                        /\ ~Produced(raw_content, i, parsed_nodes')
                        /\ Rejected(raw_content, i, skipped', "InvalidNodeFormat")]_vars

\* an ss:// link whose cipher is spelled in capitals and with "_" was parsed
\* to a node
C22_Witness ==
    /\ pc = "dedup"
    /\ \E j \in 1..Len(parsed_nodes) :
          /\ parsed_nodes[j].type = "ss"
          /\ parsed_nodes[j].cipher = "AES_256_GCM"

\* the host the link spells is not empty and the port it spells, if any,
\* lies in 1..65535
SpellsEndpoint(parts) ==
    /\ parts.host # ""
    /\ IsSome(parts.port) => parts.port[1] \in 1..MaxPort

\* C23: every node parse_single_link returns, for each of the nine
\* protocols, has port > 0 and a non-empty server: a link whose port is 0 or
\* outside 1..65535 (a VMess JSON port of 65536 or more included) or whose
\* host is empty gives an error for that line, never a node.
C23_PortAndServer ==
    [][pc = "parse" =>
        /\ \A j \in 1..Len(parsed_nodes') :
              parsed_nodes'[j].port > 0 /\ parsed_nodes'[j].server # ""
        /\ \A i \in FullAt(raw_content) :
              (Cardinality(FullAt(raw_content)) = 1
               /\ ~SpellsEndpoint(raw_content[i].parts)) =>
                    /\ ~Produced(raw_content, i, parsed_nodes')
                    /\ \E j \in 1..Len(skipped') :
                          skipped'[j].line = raw_content[i].id]_vars

\* the node of a reality link has its reality-opts with a public key
HasPublicKey(n) == IsSome(n.reality_opts) /\ n.reality_opts[1].public_key # ""

\* the node of a reality link has a client-fingerprint, chrome unless the
\* link gives one
HasFingerprint(n, fp) ==
    /\ IsSome(n.client_fingerprint)
    /\ n.client_fingerprint[1] # ""
    /\ fp \in {None, Some("")} => n.client_fingerprint = Some("chrome")

\* the TLS flag of the node of a link with this security parameter
TlsFlagRight(n, security) ==
    (n.tls = Some(TRUE)) <=> (security \in {Some("tls"), Some("reality")})

\* C24: every VLESS node parsed from a link with security=reality carries
\* reality-opts with a non-empty public-key (a reality link without pbk is
\* not accepted as a node) and a non-empty client-fingerprint, which is
\* chrome when the link has no or an empty fp; the TLS flag is true exactly
\* when security is tls or reality.
C24_RealityLink ==
    [][pc = "parse" =>
        \A i \in FullAt(raw_content) :
            LET l == raw_content[i]
                q == l.parts.query
            IN  (Cardinality(FullAt(raw_content)) = 1 /\ l.scheme = "vless") =>
                  /\ (q.security = Some("reality") /\ q.pbk = None) =>
                        ~Produced(raw_content, i, parsed_nodes')
                  /\ Produced(raw_content, i, parsed_nodes') =>
                        LET n == NodeFrom(raw_content, i, parsed_nodes')
                        IN  /\ TlsFlagRight(n, q.security)
                            /\ q.security = Some("reality") =>
                                  HasPublicKey(n) /\ HasFingerprint(n, q.fp)]_vars

(***************************************************************************)
(* Termination of convert                                                  *)
(***************************************************************************)
\* no element occurs twice in the sequence
NoRepeat(q) == \A i, j \in 1..Len(q) : q[i] = q[j] => i = j

\* convert failed in resolve_subscription or for want of a node
FailedForSources ==
    /\ Done
    /\ ~result[1].ok
    /\ \/ result[1].error \in {"Timeout", "FetchError"}
       \/ result[1].message \in {"No valid proxy nodes found", "No valid nodes found"}

EmittedNames ==
    [i \in 1..Len(result[1].yaml[1].proxies) |->
        EmittedField(result[1].yaml[1].proxies[i], "name")]

\* C26: the names of the proxies in an emitted document are pairwise
\* distinct: after dedup, filter and rename no two entries of the proxies
\* list have the same name, whatever the input nodes and the rename.
C26_ProxyNamesDistinct ==
    Succeeded => NoRepeat(EmittedNames)

(***************************************************************************)
(* Names of the rule providers                                             *)
(***************************************************************************)
\* the keys of the rule-providers mapping build_yaml emits, in its order
ProviderNames ==
    [i \in 1..Len(EmittedDocument.rule_providers) |->
        EmittedDocument.rule_providers[i].name]

\* the rule-providers entries a rule RULE-SET,<key>,... refers to
ProvidersNamed(key) ==
    {i \in 1..Len(ProviderNames) : ProviderNames[i] = key}

\* C27: the rule-provider names derived for the rulesets of one template are
\* pairwise distinct: the emitted rule-providers mapping has no duplicate
\* key and each RULE-SET rule refers to exactly one provider, also when two
\* ruleset URLs end in the same file name.
C27_ProviderNamesDistinct ==
    (Done /\ "build" \in Range(trace) /\ IsSome(ini_config)) =>
        /\ NoRepeat(ProviderNames)
        /\ \A i \in 1..Len(ProviderNames) :
              Cardinality(ProvidersNamed(ProviderNames[i])) = 1

(***************************************************************************)
(* The template stage                                                      *)
(***************************************************************************)
\* Step 5 of convert is over
TemplateStageOver == "ini" \in Range(trace) /\ pc # "ini_fetch"

\* the request names no remote template
NoTemplateUrl == request.ini_url = None \/ request.ini_url = Some("")

\* the request carries a template text that is not empty
HasTemplateText == IsSome(request.ini_content) /\ ~request.ini_content[1].empty

\* the default groups and rules stand in, and no warning says why
StageSkipped == ini_config = None /\ TemplateWarnings(warnings) = <<>>

\* C28: the template stage is skipped, the default groups and rules being
\* substituted without a warning, only when no template is supplied: when
\* the request carries a non-empty ini_content and its ini_url is absent or
\* the empty string, convert parses ini_content and builds the groups and
\* rules from it.
C28_TemplateTextUsed ==
    (TemplateStageOver /\ NoTemplateUrl /\ HasTemplateText) =>
        /\ ~StageSkipped
        /\ parse_ini_config(request.ini_content[1]).ok =>
              /\ ini_config = Some(parse_ini_config(request.ini_content[1]).config)
              /\ Succeeded =>
                    /\ result[1].group_count = Len(ini_config[1].proxy_groups)
                    /\ Len(result[1].yaml[1].proxy_groups)
                          = Len(ini_config[1].proxy_groups)

(***************************************************************************)
(* The members of the emitted groups                                       *)
(***************************************************************************)
\* the names an entry of a group built from the template may be: those of the
\* emitted proxies, those of the groups of the template, DIRECT and REJECT
KnownNames ==
    Range(EmittedNames)
        \cup {ini_config[1].proxy_groups[g].name :
                g \in 1..Len(ini_config[1].proxy_groups)}
        \cup {<<"DIRECT">>, <<"REJECT">>}

\* C29: every entry in the proxies list of every proxy group produced from a
\* template is the name of an emitted proxy, the name of a group defined in
\* the same template, or DIRECT or REJECT: a GroupRef or Literal naming
\* something that does not exist is never emitted.
C29_GroupMembersExist ==
    (Succeeded /\ IsSome(ini_config)) =>
        \A g \in 1..Len(result[1].yaml[1].proxy_groups) :
            \A i \in 1..Len(result[1].yaml[1].proxy_groups[g].proxies) :
                result[1].yaml[1].proxy_groups[g].proxies[i].text \in KnownNames

(***************************************************************************)
(* The node preview and the conversion                                     *)
(***************************************************************************)
\* name, server and port of the nodes of a list, in its order
Endpoints(list) ==
    [i \in 1..Len(list) |->
        [name |-> list[i].name, server |-> list[i].server, port |-> list[i].port]]

\* what parse_nodes returns for the nodes convert parsed and the regexes of
\* its request
PreviewOfRequest ==
    parse_nodes(parsed_nodes, request.include_regex, request.exclude_regex)

\* C30: the node preview agrees with the conversion: for the same
\* subscription text, fetch responses and include and exclude regexes,
\* parse_nodes returns exactly the sequence of nodes (name, server, port, in
\* order) that convert holds after its dedup and filter stages and before
\* the renaming.
C30_PreviewAgrees ==
    /\ pc = "rename" =>
          /\ PreviewOfRequest.ok
          /\ Endpoints(PreviewOfRequest.nodes) = Endpoints(nodes)
    /\ (Done /\ trace[Len(trace)] = "filter"
             /\ result[1].message = "All nodes were filtered out") =>
          /\ PreviewOfRequest.ok
          /\ PreviewOfRequest.nodes = <<>>

====
